---- MODULE Spec2Model ----
(***************************************************************************)
(* The live transcription session manager of the service layer             *)
(* (src/App.tsx lines 265-351): the process-wide handle liveSessionPromise,*)
(* the three entry points startTranscriptionSession,                       *)
(* sendAudioForTranscription and stopTranscriptionSession, the four        *)
(* connection callbacks, and the promise reactions the entry points        *)
(* register on the connection promise.                                     *)
(*                                                                         *)
(* The module also holds the chat service (src/App.tsx lines 59-111) with  *)
(* the chat screen that drives it (ChatMode.tsx, ChatInput.tsx), one call  *)
(* of the generator generateVideo (src/App.tsx lines 168-233) with the     *)
(* video screen that consumes it (VideoMode), one call of analyzeMedia,    *)
(* generateImage or generateAudio (src/App.tsx lines 134-165 and 237-263), *)
(* and the transcription screen (TranscribeMode.tsx) driving the session   *)
(* manager. Each part has its own next-state relation and specification:   *)
(* Spec, SpecChat, SpecChatScreen, SpecVideo, SpecVideoScreen,             *)
(* SpecRequest, SpecMedia and SpecMic.                                     *)
(*                                                                         *)
(* Scheduling is the single-threaded event loop: a promise reaction is a   *)
(* job of the FIFO microtask queue, a remote event (the connection promise *)
(* settling, a message, an error, a close) is a task that starts only when *)
(* the microtask queue is empty, and a caller may call an entry point from *)
(* a task or from a job of its own, that is between any two steps.         *)
(***************************************************************************)
EXTENDS Integers, Sequences, FiniteSets, TLC

\* ---- bounds of the model ------------------------------------------------
\* Entry-point calls that take effect in one run: connect calls, audio chunks
\* and stop calls that find a handle, together.
MaxCalls == 4

Null == 0
Sessions == 1..MaxCalls
Chunks == 1..MaxCalls
Close == 0              \* the mark of session.close() in a connection's wire log

\* sendMessageToAI calls made in one run.
MaxTurns == 3

Turns == 1..MaxTurns

\* startTranscription calls made by the transcription screen in one run.
MaxStarts == 2

Pipes == 1..MaxStarts

\* Characters of finalTranscript the transcription screen shows in one run.
MaxShown == 4

\* ChatPersonality (src/types.ts)
Personalities == {"standard", "fast", "creative"}

\* Texts of an interim fragment (inputTranscription.text); "" is a legal text.
Texts == {"", "a"}

\* LiveServerMessage, as far as onmessage reads it. inputTranscription is <<>>
\* when absent and <<text>> when present.
Messages ==
    {[serverContent |-> FALSE, inputTranscription |-> <<>>, turnComplete |-> FALSE]}
    \cup [serverContent : {TRUE},
          inputTranscription : {<<>>} \cup {<<t>> : t \in Texts},
          turnComplete : BOOLEAN]

NoMessage == [serverContent |-> FALSE, inputTranscription |-> <<>>, turnComplete |-> FALSE]

VARIABLES
    apiKey,             \* process.env.API_KEY is set
    liveSessionPromise, \* Null, or the session whose connect promise it holds
    nextId,             \* number of ai.live.connect calls made so far
    promise,            \* per session: "none", "pending", "resolved", "rejected"
    reactions,          \* per session: jobs waiting for the promise to settle
    microtasks,         \* the FIFO microtask queue
    sock,               \* per session: state of the underlying connection
    wire,               \* per session: sendRealtimeInput(chunk) and close() calls, in order
    currentTranscript,  \* per session: the closure variable of its start call
    nextChunk,          \* number of sendAudioForTranscription calls so far
    handedTo,           \* per chunk: the handle its send call found (Null: none)
                        \* and the state of that handle's promise at the call
    stops,              \* number of stop calls that found a handle
    op,                 \* the step taken last
    calls,              \* the caller's callbacks invoked by the step taken last
    lastInterim,        \* per session: <<text>> of the interim update made last,
                        \* <<>> when none was made since the session began or
                        \* since its last final update
    chats,              \* the Map chats: per personality its Chat, or Null
    created,            \* number of Chat objects ai.chats.create has returned
    turn,               \* per sendMessageToAI call: its personality, the Chat it
                        \* was sent on, its state, and how many entries of its
                        \* personality had been removed before the call
    nextTurn,           \* number of sendMessageToAI calls made so far
    removed,            \* per personality: entries removed from chats so far
    chatOp,             \* the chat step taken last
    personality,        \* ChatMode state: the selected personality
    isLoading,          \* ChatMode state
    error,              \* ChatMode state: an error text is set
    messages,           \* ChatMode state: the displayed messages
    videoPc,            \* where the generateVideo call stands
    payload,            \* the payload generateVideo has built
    submitted,          \* the payloads of the ai.models.generateVideos calls made
    operation,          \* generateVideo's variable operation
    reports,            \* operations with done false that the call has seen
    polls,              \* ai.operations.getVideosOperation calls made
    outstanding,        \* getVideosOperation calls not yet settled
    timers,             \* 10 s timers that have fired
    fetches,            \* fetch calls made
    events,             \* the updates the generator has yielded, in order
    failure,            \* the error the generator has thrown
    videoOp,            \* the video step taken last
    videoPrompt,        \* VideoMode state prompt
    videoImage,         \* VideoMode state imageFile: NoFile, or the file chosen
    videoAspect,        \* VideoMode state aspectRatio
    videoUrl,           \* VideoMode state videoUrl: <<>> for null, else <<url>>
    status,             \* VideoMode state status
    videoError,         \* VideoMode state error
    apiKeyOk,           \* VideoMode state apiKeyOk
    keyCheckPending,    \* the hasSelectedApiKey() call of the mount effect is awaited
    keyDialogs,         \* openSelectKey() calls that are awaited
    reqPc,              \* where the one-shot call (analyzeMedia, generateImage,
                        \* generateAudio) stands
    reqArgs,            \* the entry point called and its arguments
    remote,             \* the requests the call has sent to the provider, in order
    reqValue,           \* the value the call returned: <<>> before, else <<value>>
    reqFailure,         \* the error the call has thrown
    reqOp,              \* the step of the one-shot call taken last
    mounted,            \* the TranscribeMode component is mounted
    isListening,        \* TranscribeMode state isListening
    micError,           \* TranscribeMode state error: "" for null
    transcript,         \* TranscribeMode state transcript
    finalTranscript,    \* TranscribeMode state finalTranscript
    nextPipe,           \* number of startTranscription calls made so far
    stream,             \* per startTranscription call: its MediaStream
    ctx,                \* per startTranscription call: its AudioContext
    proc,               \* per startTranscription call: its source and
                        \* ScriptProcessorNode
    streamRef,          \* streamRef.current: 0 for null, else the call it is of
    ctxRef,             \* inputAudioContextRef.current, likewise
    procRef,            \* scriptProcessorRef.current and
                        \* mediaStreamSourceRef.current, likewise
    owner,              \* per session: the startTranscription call that opened it
    fired,              \* the startTranscription calls whose onError or onClose
                        \* callback has been invoked
    micOp               \* the step of the transcription screen taken last

service == <<liveSessionPromise, nextId, promise, reactions, microtasks, sock, wire,
             currentTranscript>>
\* The chat service (src/App.tsx lines 59-111) and the chat screen
\* (src/components/modes/ChatMode.tsx).
chatService == <<chats, created, turn, nextTurn, removed, chatOp>>
chatScreen == <<personality, isLoading, error, messages>>
chat == <<chatService, chatScreen>>

\* The transcription session manager and what is observed of it.
live == <<service, nextChunk, handedTo, stops, op, calls, lastInterim>>

\* One call of generateVideo (src/App.tsx lines 168-233).
video == <<videoPc, payload, submitted, operation, reports, polls, outstanding, timers, fetches,
           events, failure, videoOp>>

\* The video screen (src/unnamed/part_000, VideoMode).
videoForm == <<videoPrompt, videoImage, videoAspect>>
keyHost == <<keyCheckPending, keyDialogs>>
videoScreen == <<videoForm, videoUrl, status, videoError, apiKeyOk, keyHost>>

\* One call of analyzeMedia, generateImage or generateAudio
\* (src/App.tsx lines 134-165 and 237-263).
request == <<reqPc, reqArgs, remote, reqValue, reqFailure, reqOp>>

\* The transcription screen (src/components/modes/TranscribeMode.tsx).
micRefs == <<streamRef, ctxRef, procRef>>
mic == <<mounted, isListening, micError, transcript, finalTranscript, nextPipe, stream, ctx, proc,
         micRefs, owner, fired, micOp>>

vars == <<apiKey, liveSessionPromise, nextId, promise, reactions, microtasks, sock,
          wire, currentTranscript, nextChunk, handedTo, stops, op, calls, lastInterim,
          chat, video, videoScreen, request, mic>>

\* ---- records of the observation variables --------------------------------
Op(name, id, outcome) ==
    [name |-> name, id |-> id, outcome |-> outcome, chunk |-> 0, msg |-> NoMessage]

OnUpdateCall(c, text, isFinal) ==
    [cb |-> "onTranscriptionUpdate", sess |-> c, text |-> text, isFinal |-> isFinal]
OnErrorCall(c, text) == [cb |-> "onError", sess |-> c, text |-> text, isFinal |-> FALSE]
OnCloseCall(c) == [cb |-> "onClose", sess |-> c, text |-> "", isFinal |-> FALSE]

\* ---- promise jobs ---------------------------------------------------------
Job(kind, p, chunk, rejected) ==
    [kind |-> kind, p |-> p, chunk |-> chunk, rejected |-> rejected]

\* ---- records of the chat state ---------------------------------------------
ChatOp(name, P, t, outcome) == [name |-> name, p |-> P, turn |-> t, outcome |-> outcome]

\* A sendMessageToAI call: "none" before it is made, "inflight" while
\* chatInstance.sendMessage is awaited, "ok" once it has returned the reply,
\* "failed" once it has thrown.
Turn(state, P, sess, epoch) == [state |-> state, p |-> P, sess |-> sess, epoch |-> epoch]
NoTurn == Turn("none", "standard", Null, 0)

\* A displayed message: its role, its kind and the turn it belongs to.
Message(role, kind, t) == [role |-> role, kind |-> kind, turn |-> t]
initialMessage == Message("model", "greeting", 0)

\* ---- records of the video state --------------------------------------------
\* The payload: prompt is <<>> when not attached, image tells whether the
\* image field is attached.
Payload(prompt, image, aspectRatio) ==
    [prompt |-> prompt, image |-> image, aspectRatio |-> aspectRatio]
NoPayload == Payload(<<>>, FALSE, "16:9")

\* An operation as generateVideo reads it: done, error (<<>> when absent,
\* else <<message>>) and response.generatedVideos[0].video.uri (<<>> when
\* any link of that chain is absent, else <<uri>>).
Operation(done, err, uri) == [done |-> done, error |-> err, uri |-> uri]
NoOperation == Operation(FALSE, <<>>, <<>>)

\* A yielded update.
Update(kind, url) == [status |-> kind, url |-> url]

\* The error thrown out of the generator: its message, and where it arose.
Failure(cause, message) == [cause |-> cause, message |-> message]
NoFailure == Failure("none", "")

VideoOp(name, text) == [name |-> name, text |-> text]

\* VideoMode's error state: null, or a message with the isQuotaError flag.
ScreenError(message, isQuotaError) == [message |-> message, isQuotaError |-> isQuotaError]
NoScreenError == ScreenError("", FALSE)

NoFile == "none"

\* A step of the transcription screen and the startTranscription call it
\* belongs to (0: none).
MicOp(name, pipe) == [name |-> name, pipe |-> pipe]

\* ---- records of the one-shot calls ------------------------------------------
\* The entry point called, its text argument (prompt or text) and its other
\* argument (the file's type, the aspect ratio or the voice name).
Request(kind, text, option) == [kind |-> kind, text |-> text, option |-> option]
NoRequest == Request("none", "", "")

\* A request sent to the provider: the SDK method, the model, the text, the
\* numberOfImages asked for (0 where the request has no such field) and the
\* remaining option (the part's mimeType, the aspectRatio or the voiceName).
RemoteCall(api, model, text, numberOfImages, option) ==
    [api |-> api, model |-> model, text |-> text, numberOfImages |-> numberOfImages,
     option |-> option]

Init ==
    /\ apiKey \in BOOLEAN
    /\ liveSessionPromise = Null
    /\ nextId = 0
    /\ promise = [c \in Sessions |-> "none"]
    /\ reactions = [c \in Sessions |-> <<>>]
    /\ microtasks = <<>>
    /\ sock = [c \in Sessions |-> "none"]
    /\ wire = [c \in Sessions |-> <<>>]
    /\ currentTranscript = [c \in Sessions |-> ""]
    /\ nextChunk = 0
    /\ handedTo = [k \in Chunks |-> [sess |-> Null, state |-> "none"]]
    /\ stops = 0
    /\ op = Op("init", Null, "")
    /\ calls = <<>>
    /\ lastInterim = [c \in Sessions |-> <<>>]
    /\ chats = [P \in Personalities |-> Null]
    /\ created = 0
    /\ turn = [t \in Turns |-> NoTurn]
    /\ nextTurn = 0
    /\ removed = [P \in Personalities |-> 0]
    /\ chatOp = ChatOp("init", "standard", 0, "")
    /\ personality = "standard"
    /\ isLoading = FALSE
    /\ error = FALSE
    /\ messages = <<initialMessage>>
    /\ videoPc = "idle"
    /\ payload = NoPayload
    /\ submitted = <<>>
    /\ operation = NoOperation
    /\ reports = 0
    /\ polls = 0
    /\ outstanding = 0
    /\ timers = 0
    /\ fetches = 0
    /\ events = <<>>
    /\ failure = NoFailure
    /\ videoOp = VideoOp("init", "")
    /\ videoPrompt = ""
    /\ videoImage = NoFile
    /\ videoAspect = "16:9"
    /\ videoUrl = <<>>
    /\ status = "idle"
    /\ videoError = NoScreenError
    /\ apiKeyOk = FALSE
    /\ keyCheckPending = TRUE
    /\ keyDialogs = 0
    /\ reqPc = "idle"
    /\ reqArgs = NoRequest
    /\ remote = <<>>
    /\ reqValue = <<>>
    /\ reqFailure = NoFailure
    /\ reqOp = VideoOp("init", "")
    /\ mounted = TRUE
    /\ isListening = FALSE
    /\ micError = ""
    /\ transcript = ""
    /\ finalTranscript = ""
    /\ nextPipe = 0
    /\ stream = [i \in Pipes |-> "none"]
    /\ ctx = [i \in Pipes |-> "none"]
    /\ proc = [i \in Pipes |-> "none"]
    /\ streamRef = 0
    /\ ctxRef = 0
    /\ procRef = 0
    /\ owner = [c \in Sessions |-> 0]
    /\ fired = {}
    /\ micOp = MicOp("init", 0)

\* The bound of the model: one more call that takes effect is allowed.
WithinBudget == nextId + nextChunk + stops < MaxCalls

\* ---- promise plumbing -----------------------------------------------------
\* promise.then(job): a reaction on a pending promise waits for it to settle;
\* on a settled promise it is queued as a microtask at once.
Register(p, job) ==
    IF promise[p] = "pending"
    THEN /\ reactions' = [reactions EXCEPT ![p] = Append(@, job)]
         /\ microtasks' = microtasks
    ELSE /\ microtasks' = Append(microtasks, job)
         /\ reactions' = reactions

\* Settling a promise queues its reactions in the order they were registered.
Settled(queue, waiting) == queue \o waiting

\* ---- startTranscriptionSession -------------------------------------------
\* Variant: the presence check is missing.
NeverInProgress == FALSE

\* if (liveSessionPromise) { console.warn(...); return; }
AlreadyInProgress == liveSessionPromise # Null

startTranscriptionSession ==
    /\ AlreadyInProgress \/ ~apiKey \/ WithinBudget
    /\ IF AlreadyInProgress
       THEN \* "Transcription session already in progress."
            /\ op' = Op("start", liveSessionPromise, "inProgress")
            /\ calls' = <<>>
            /\ UNCHANGED <<liveSessionPromise, nextId, promise, sock, currentTranscript>>
       ELSE IF ~apiKey
       THEN /\ op' = Op("start", Null, "noKey")
            /\ calls' = <<OnErrorCall(Null, "API_KEY environment variable not set")>>
            /\ UNCHANGED <<liveSessionPromise, nextId, promise, sock, currentTranscript>>
       ELSE LET c == nextId + 1 IN
            /\ nextId' = c
            /\ liveSessionPromise' = c
            /\ promise' = [promise EXCEPT ![c] = "pending"]
            /\ sock' = [sock EXCEPT ![c] = "connecting"]
            /\ currentTranscript' = [currentTranscript EXCEPT ![c] = ""]
            /\ op' = Op("start", c, "connect")
            /\ calls' = <<>>
    /\ UNCHANGED <<chat, video, videoScreen, request, lastInterim>>
    /\ UNCHANGED <<apiKey, reactions, microtasks, wire, nextChunk, handedTo, stops>>

\* ---- sendAudioForTranscription -------------------------------------------
\* Variant: a chunk handed over before the connection is ready is dropped.
SendDroppedWhilePending(p, k) ==
    /\ IF promise[p] = "pending"
       THEN UNCHANGED <<reactions, microtasks>>
       ELSE Register(p, Job("sendThen", p, k, FALSE))
    /\ wire' = wire

\* Variant: once the promise has resolved the chunk is sent at once, not
\* through a reaction.
SendDirectWhenResolved(p, k) ==
    IF promise[p] = "resolved"
    THEN /\ wire' = [wire EXCEPT ![p] = Append(@, k)]
         /\ UNCHANGED <<reactions, microtasks>>
    ELSE /\ Register(p, Job("sendThen", p, k, FALSE))
         /\ wire' = wire

\* liveSessionPromise.then(session => session.sendRealtimeInput(...)): the send
\* is always a reaction on the promise, never a direct call.
SendEffect(p, k) ==
    /\ Register(p, Job("sendThen", p, k, FALSE))
    /\ wire' = wire

sendAudioForTranscription ==
    /\ WithinBudget
    /\ LET k == nextChunk + 1 IN
       /\ nextChunk' = k
       /\ IF liveSessionPromise = Null
          THEN \* "Cannot send audio, transcription session not started."
               /\ op' = [Op("send", Null, "dropped") EXCEPT !.chunk = k]
               /\ handedTo' = [handedTo EXCEPT ![k] = [sess |-> Null, state |-> "none"]]
               /\ UNCHANGED <<reactions, microtasks, wire>>
          ELSE /\ op' = [Op("send", liveSessionPromise, "queued") EXCEPT !.chunk = k]
               /\ handedTo' = [handedTo EXCEPT ![k] =
                                  [sess |-> liveSessionPromise,
                                   state |-> promise[liveSessionPromise]]]
               /\ SendEffect(liveSessionPromise, k)
    /\ calls' = <<>>
    /\ UNCHANGED <<chat, video, videoScreen, request, lastInterim>>
    /\ UNCHANGED <<apiKey, liveSessionPromise, nextId, promise, sock,
                   currentTranscript, stops>>

\* The reaction of sendAudioForTranscription: then(session =>
\* session.sendRealtimeInput(...)) followed by catch(console.error). On a
\* rejected promise, or when sendRealtimeInput throws, the catch handler logs
\* and the chain ends fulfilled; the catch handler changes no state.
RunSendThen ==
    /\ microtasks # <<>>
    /\ Head(microtasks).kind = "sendThen"
    /\ LET job == Head(microtasks) IN
       IF promise[job.p] = "resolved"
       THEN \E throws \in BOOLEAN :
              /\ wire' = [wire EXCEPT ![job.p] = Append(@, job.chunk)]
              /\ op' = [Op("sendThen", job.p, IF throws THEN "threwCaught" ELSE "sent")
                           EXCEPT !.chunk = job.chunk]
       ELSE /\ wire' = wire
            /\ op' = [Op("sendThen", job.p, "rejectedCaught") EXCEPT !.chunk = job.chunk]
    /\ microtasks' = Tail(microtasks)
    /\ calls' = <<>>
    /\ UNCHANGED <<chat, video, videoScreen, request, lastInterim>>
    /\ UNCHANGED <<apiKey, liveSessionPromise, nextId, promise, reactions, sock,
                   currentTranscript, nextChunk, handedTo, stops>>

\* ---- stopTranscriptionSession --------------------------------------------
\* The chain then(close).catch(log).finally(clear) registered on the handle.
StopChain(p) == Register(p, Job("stopThen", p, 0, FALSE))

\* Variant: without the guard, then() is called on null and the call throws.
StopThrowsWithoutSession ==
    /\ op' = Op("stop", Null, "threw")
    /\ UNCHANGED <<reactions, microtasks, stops>>

\* if (!liveSessionPromise) return;
StopWithoutSession ==
    /\ op' = Op("stop", Null, "noSession")
    /\ UNCHANGED <<reactions, microtasks, stops>>

stopTranscriptionSession ==
    /\ liveSessionPromise = Null \/ WithinBudget
    /\ IF liveSessionPromise = Null
       THEN StopWithoutSession
       ELSE /\ op' = Op("stop", liveSessionPromise, "chained")
            /\ StopChain(liveSessionPromise)
            /\ stops' = stops + 1
    /\ calls' = <<>>
    /\ UNCHANGED <<chat, video, videoScreen, request, lastInterim>>
    /\ UNCHANGED <<apiKey, liveSessionPromise, nextId, promise, sock, wire,
                   currentTranscript, nextChunk, handedTo>>

\* then(session => session.close()): runs close on a resolved promise, passes
\* a rejection on. The derived promise settles one microtask later.
RunStopThen ==
    /\ microtasks # <<>>
    /\ Head(microtasks).kind = "stopThen"
    /\ LET job == Head(microtasks) IN
       IF promise[job.p] = "resolved"
       THEN \E throws \in BOOLEAN :
              /\ wire' = [wire EXCEPT ![job.p] = Append(@, Close)]
              /\ sock' = [sock EXCEPT ![job.p] =
                             IF ~throws /\ @ = "open" THEN "closing" ELSE @]
              /\ microtasks' = Append(Tail(microtasks), Job("stopCatch", job.p, 0, throws))
              /\ op' = Op("stopThen", job.p, IF throws THEN "closeThrew" ELSE "closeRequested")
       ELSE /\ UNCHANGED <<wire, sock>>
            /\ microtasks' = Append(Tail(microtasks), Job("stopCatch", job.p, 0, TRUE))
            /\ op' = Op("stopThen", job.p, "rejected")
    /\ calls' = <<>>
    /\ UNCHANGED <<chat, video, videoScreen, request, lastInterim>>
    /\ UNCHANGED <<apiKey, liveSessionPromise, nextId, promise, reactions,
                   currentTranscript, nextChunk, handedTo, stops>>

\* catch(err => console.error(...)): logs a rejection, then fulfils.
RunStopCatch ==
    /\ microtasks # <<>>
    /\ Head(microtasks).kind = "stopCatch"
    /\ LET job == Head(microtasks) IN
       /\ microtasks' = Append(Tail(microtasks), Job("stopFinally", job.p, 0, FALSE))
       /\ op' = Op("stopCatch", job.p, IF job.rejected THEN "logged" ELSE "passed")
    /\ calls' = <<>>
    /\ UNCHANGED <<chat, video, videoScreen, request, lastInterim>>
    /\ UNCHANGED <<apiKey, liveSessionPromise, nextId, promise, reactions, sock, wire,
                   currentTranscript, nextChunk, handedTo, stops>>

\* finally(() => { liveSessionPromise = null; })
RunStopFinally ==
    /\ microtasks # <<>>
    /\ Head(microtasks).kind = "stopFinally"
    /\ liveSessionPromise' = Null
    /\ microtasks' = Tail(microtasks)
    /\ op' = Op("stopFinally", Head(microtasks).p, "cleared")
    /\ calls' = <<>>
    /\ UNCHANGED <<chat, video, videoScreen, request, lastInterim>>
    /\ UNCHANGED <<apiKey, nextId, promise, reactions, sock, wire,
                   currentTranscript, nextChunk, handedTo, stops>>

\* ---- the connection promise settles --------------------------------------
\* The connection of a session: "connecting" from the connect call, "open"
\* once the promise resolves, "failed" if it rejects, "closing" after
\* session.close(), "errored" after its error event, "closed" after its close
\* event. A connection delivers messages while open or closing, at most one
\* error event, and one close event, after which it delivers nothing; a
\* connection that errors before it opens leaves the promise pending.
\* ai.live.connect resolves once the connection is open (onopen only logs).
ConnectResolves(c) ==
    /\ microtasks = <<>>
    /\ promise[c] = "pending"
    /\ sock[c] = "connecting"
    /\ promise' = [promise EXCEPT ![c] = "resolved"]
    /\ sock' = [sock EXCEPT ![c] = "open"]
    /\ microtasks' = Settled(microtasks, reactions[c])
    /\ reactions' = [reactions EXCEPT ![c] = <<>>]
    /\ op' = Op("resolve", c, "")
    /\ calls' = <<>>
    /\ UNCHANGED <<chat, video, videoScreen, request, lastInterim>>
    /\ UNCHANGED <<apiKey, liveSessionPromise, nextId, wire, currentTranscript,
                   nextChunk, handedTo, stops>>

\* ai.live.connect rejects: no connection was established. The start call
\* registered no rejection handler on the promise.
ConnectRejects(c) ==
    /\ microtasks = <<>>
    /\ promise[c] = "pending"
    /\ sock[c] = "connecting"
    /\ promise' = [promise EXCEPT ![c] = "rejected"]
    /\ sock' = [sock EXCEPT ![c] = "failed"]
    /\ microtasks' = Settled(microtasks, reactions[c])
    /\ reactions' = [reactions EXCEPT ![c] = <<>>]
    /\ op' = Op("reject", c, "")
    /\ calls' = <<>>
    /\ UNCHANGED <<chat, video, videoScreen, request, lastInterim>>
    /\ UNCHANGED <<apiKey, liveSessionPromise, nextId, wire, currentTranscript,
                   nextChunk, handedTo, stops>>

\* ---- the connection callbacks of session c --------------------------------
\* Variant: a fragment only starts an utterance, it does not replace one.
FragmentIfEmpty(buf, m) ==
    IF m.serverContent /\ m.inputTranscription # <<>> /\ buf = ""
    THEN m.inputTranscription[1]
    ELSE buf

\* What onmessage does to the utterance buffer, and the callbacks it makes.
AfterFragment(buf, m) ==
    IF m.serverContent /\ m.inputTranscription # <<>>
    THEN m.inputTranscription[1]
    ELSE buf

\* Variant: every message reports the buffer as an interim result.
InterimOnEveryMessage(c, m) ==
    <<OnUpdateCall(c, AfterFragment(currentTranscript[c], m), FALSE)>>

InterimCalls(c, m) ==
    IF m.serverContent /\ m.inputTranscription # <<>>
    THEN <<OnUpdateCall(c, m.inputTranscription[1], FALSE)>>
    ELSE <<>>

\* Variant: the final transcript is sent only for a marker that comes in a
\* message of its own.
FinalOnlyOnBareMarker(buf, m) ==
    m.serverContent /\ m.turnComplete /\ buf # "" /\ m.inputTranscription = <<>>

\* 'turnComplete' with a non-empty buffer: the final transcript.
IsFinalTurn(buf, m) == m.serverContent /\ m.turnComplete /\ buf # ""

\* Variant: the final transcript is the buffer as it was before the fragment
\* of the same message.
FinalFromOldBuffer(c, buf, m) ==
    IF m.serverContent /\ m.turnComplete /\ currentTranscript[c] # ""
    THEN <<OnUpdateCall(c, currentTranscript[c], TRUE)>>
    ELSE <<>>

FinalCalls(c, buf, m) ==
    IF IsFinalTurn(buf, m) THEN <<OnUpdateCall(c, buf, TRUE)>> ELSE <<>>

\* Variant: the buffer is not reset after the final transcript.
BufferKept(buf, m) == buf

AfterTurnComplete(buf, m) == IF IsFinalTurn(buf, m) THEN "" ELSE buf

\* What the caller has heard of a session after the callbacks cs: the text of
\* the interim update made last, none after a final update.
RECURSIVE Heard(_, _)
Heard(prev, cs) ==
    IF cs = <<>> THEN prev
    ELSE Heard(IF Head(cs).isFinal THEN <<>> ELSE <<Head(cs).text>>, Tail(cs))

onmessage(c, m) ==
    /\ microtasks = <<>>
    /\ sock[c] \in {"open", "closing"}
    /\ LET buf == AfterFragment(currentTranscript[c], m) IN
       /\ calls' = InterimCalls(c, m) \o FinalCalls(c, buf, m)
       /\ currentTranscript' = [currentTranscript EXCEPT ![c] = AfterTurnComplete(buf, m)]
    /\ lastInterim' = [lastInterim EXCEPT ![c] = Heard(@, calls')]
    /\ op' = [Op("message", c, "") EXCEPT !.msg = m]
    /\ UNCHANGED <<chat, video, videoScreen, request>>
    /\ UNCHANGED <<apiKey, liveSessionPromise, nextId, promise, reactions, microtasks,
                   sock, wire, nextChunk, handedTo, stops>>

\* Variants: the handler does not clear the handle.
HandleKeptAfterError(c) == liveSessionPromise
HandleKeptAfterClose(c) == liveSessionPromise

\* The handle after the onerror / onclose callback of session c has run.
HandleAfterError(c) == Null
HandleAfterClose(c) == Null

\* The message property of the error events of a connection: absent or
\* empty (""), or a text.
ErrorEvents == {"", "boom"}

\* e.message || "An unknown error occurred during transcription."
SessionError(message) ==
    IF message = "" THEN "An unknown error occurred during transcription." ELSE message

\* onerror: callbacks.onError(new Error(...)), then liveSessionPromise = null.
\* The caller's onError may call stopTranscriptionSession before it returns
\* (TranscribeMode's does): cbStops.
onerror(c, cbStops, message) ==
    /\ microtasks = <<>>
    /\ sock[c] \in {"connecting", "open", "closing"}
    /\ sock' = [sock EXCEPT ![c] = "errored"]
    /\ calls' = <<OnErrorCall(c, SessionError(message))>>
    /\ IF cbStops
       THEN /\ liveSessionPromise # Null
            /\ WithinBudget
            /\ StopChain(liveSessionPromise)
            /\ stops' = stops + 1
       ELSE UNCHANGED <<reactions, microtasks, stops>>
    /\ liveSessionPromise' = HandleAfterError(c)
    /\ op' = Op("error", c, IF cbStops THEN "callbackStopped" ELSE "")
    /\ UNCHANGED <<chat, video, videoScreen, request, lastInterim>>
    /\ UNCHANGED <<apiKey, nextId, promise, wire, currentTranscript, nextChunk, handedTo>>

\* onclose: callbacks.onClose(), then liveSessionPromise = null.
onclose(c) ==
    /\ microtasks = <<>>
    /\ sock[c] \in {"open", "closing", "errored"}
    /\ sock' = [sock EXCEPT ![c] = "closed"]
    /\ calls' = <<OnCloseCall(c)>>
    /\ liveSessionPromise' = HandleAfterClose(c)
    /\ op' = Op("close", c, "")
    /\ UNCHANGED <<chat, video, videoScreen, request, lastInterim>>
    /\ UNCHANGED <<apiKey, nextId, promise, reactions, microtasks, wire,
                   currentTranscript, nextChunk, handedTo, stops>>

\* The session manager driven by any caller; the transcription screen is
\* not mounted.
Next ==
    \/ startTranscriptionSession /\ UNCHANGED mic
    \/ sendAudioForTranscription /\ UNCHANGED mic
    \/ stopTranscriptionSession /\ UNCHANGED mic
    \/ RunSendThen /\ UNCHANGED mic
    \/ RunStopThen /\ UNCHANGED mic
    \/ RunStopCatch /\ UNCHANGED mic
    \/ RunStopFinally /\ UNCHANGED mic
    \/ \E c \in Sessions : ConnectResolves(c) /\ UNCHANGED mic
    \/ \E c \in Sessions : ConnectRejects(c) /\ UNCHANGED mic
    \/ \E c \in Sessions, m \in Messages : onmessage(c, m) /\ UNCHANGED mic
    \/ \E c \in Sessions, cbStops \in BOOLEAN, message \in ErrorEvents :
          onerror(c, cbStops, message) /\ UNCHANGED mic
    \/ \E c \in Sessions : onclose(c) /\ UNCHANGED mic

Spec == Init /\ [][Next]_vars

\* ---- helpers of the properties --------------------------------------------
Range(f) == {f[i] : i \in DOMAIN f}

Count(f, x) == Cardinality({i \in DOMAIN f : f[i] = x})

\* A connection that was requested, has not failed to open, has not errored or
\* closed, and on which no close was requested.
Live(c) ==
    /\ sock[c] \in {"connecting", "open"}
    /\ Close \notin Range(wire[c])

StopKinds == {"stopThen", "stopCatch", "stopFinally"}

\* A stop call found the handle of session c and its cleanup has not finished.
StopCalledOn(c) ==
    \/ \E i \in DOMAIN reactions[c] : reactions[c][i].kind \in StopKinds
    \/ \E i \in DOMAIN microtasks :
          microtasks[i].kind \in StopKinds /\ microtasks[i].p = c

\* ---- properties ------------------------------------------------------------
\* C1: at any time at most one transcription connection is live (requested,
\* not closed, not errored); a late event of an earlier session never clears
\* the handle of a newer one so that a further start opens a second one.
\* The code violates it: see the trace of this invariant.
C1_AtMostOneLiveConnection ==
    Cardinality({c \in Sessions : Live(c)}) <= 1

\* C2: once stopTranscriptionSession has found a handle, the handle is cleared,
\* so that a start issued after the stop is not rejected as already in
\* progress. The code violates it: the handle is cleared by a reaction on the
\* connection promise, which has not run yet (or never runs).
C2_StartAfterStopNotRejected ==
    (op.name = "start" /\ op.outcome = "inProgress")
        => ~StopCalledOn(liveSessionPromise)

\* C6: when the connection promise rejects, the handle is cleared and the
\* failure reaches onError. The code violates it: the start call registers
\* nothing on the promise.
C6_RejectTearsDown ==
    op.name = "reject"
        => /\ liveSessionPromise # op.id
           /\ \E i \in DOMAIN calls : calls[i].cb = "onError"

\* C3: a start call that finds a handle leaves the handle, every session's
\* promise, connection and utterance buffer and the queues untouched, asks for
\* no connection and invokes no callback.
C3_StartWhileActiveIsNoOp ==
    [][(op'.name = "start" /\ liveSessionPromise # Null)
          => /\ UNCHANGED service
             /\ calls' = <<>>
             /\ op'.outcome = "inProgress"]_vars

C3_Witness ==
    /\ op.name = "start"
    /\ op.outcome = "inProgress"
    /\ currentTranscript[liveSessionPromise] = "a"

\* C4: the error event of a connection invokes onError exactly once and
\* nothing else, and leaves the handle cleared; a start call that follows it
\* opens a new connection.
C4_ErrorClearsHandle ==
    /\ [](op.name = "error"
            => /\ \E message \in ErrorEvents :
                    calls = <<OnErrorCall(op.id, SessionError(message))>>
               /\ liveSessionPromise = Null)
    /\ [][(op.name = "error" /\ op'.name = "start")
            => /\ op'.outcome = "connect"
               /\ nextId' = nextId + 1
               /\ liveSessionPromise' = nextId'
               /\ promise'[nextId'] = "pending"
               /\ sock'[nextId'] = "connecting"]_vars

C4_Witness ==
    /\ op.name = "start"
    /\ op.outcome = "connect"
    /\ op.id > 1
    /\ sock[op.id - 1] = "errored"
    /\ promise[op.id - 1] = "resolved"

\* C5: the close event of a connection, whether the remote side closed or a
\* stop requested it, invokes onClose exactly once and nothing else, and
\* leaves the handle cleared.
C5_CloseClearsHandle ==
    op.name = "close"
        => /\ calls = <<OnCloseCall(op.id)>>
           /\ liveSessionPromise = Null

C5_Witness ==
    /\ op.name = "close"
    /\ Close \in Range(wire[op.id])
    /\ calls = <<OnCloseCall(op.id)>>
    /\ liveSessionPromise = Null

FragmentOnly(m) ==
    m.serverContent /\ m.inputTranscription # <<>> /\ ~m.turnComplete

TurnCompleteOnly(m) ==
    m.serverContent /\ m.inputTranscription = <<>> /\ m.turnComplete

\* C7: a message with an interim fragment and no turn-complete marker makes
\* the fragment the utterance buffer of its session and produces exactly one
\* callback, onTranscriptionUpdate(fragment, false).
C7_FragmentReplacesBuffer ==
    (op.name = "message" /\ FragmentOnly(op.msg))
        => /\ currentTranscript[op.id] = op.msg.inputTranscription[1]
           /\ calls = <<OnUpdateCall(op.id, op.msg.inputTranscription[1], FALSE)>>

\* A fragment-only message carrying the text "" has been handled: the buffer
\* is that text and the one callback is the interim update.
C7_Witness ==
    /\ op.name = "message"
    /\ FragmentOnly(op.msg)
    /\ op.msg.inputTranscription = <<"">>
    /\ currentTranscript[op.id] = ""
    /\ calls = <<OnUpdateCall(op.id, "", FALSE)>>

\* C8: a message with only a turn-complete marker delivers a non-empty buffer
\* once as final and clears it, and does nothing on an empty buffer; a second
\* such message right after the first delivers nothing.
C8_TurnCompleteFinalisesOnce ==
    /\ [][(op'.name = "message" /\ TurnCompleteOnly(op'.msg))
            => LET c == op'.id
                   buf == currentTranscript[c]
               IN  IF buf # ""
                   THEN /\ calls' = <<OnUpdateCall(c, buf, TRUE)>>
                        /\ currentTranscript' = [currentTranscript EXCEPT ![c] = ""]
                        /\ UNCHANGED <<liveSessionPromise, nextId, promise, reactions,
                                       microtasks, sock, wire>>
                   ELSE /\ calls' = <<>>
                        /\ UNCHANGED service]_vars
    /\ [][(/\ op.name = "message" /\ TurnCompleteOnly(op.msg)
           /\ op'.name = "message" /\ TurnCompleteOnly(op'.msg)
           /\ op'.id = op.id)
            => calls' = <<>>]_vars

C8_Witness ==
    /\ op.name = "message"
    /\ TurnCompleteOnly(op.msg)
    /\ calls = <<OnUpdateCall(op.id, "a", TRUE)>>
    /\ currentTranscript[op.id] = ""

SendJobs(q, k) ==
    Cardinality({i \in DOMAIN q : q[i].kind = "sendThen" /\ q[i].chunk = k})

\* Where chunk k is: on the wire of session c, waiting on c's promise, or in
\* the microtask queue.
Sent(c, k) == Count(wire[c], k)

ChunkAccounted(k) ==
    LET c == handedTo[k].sess IN
    IF k > nextChunk \/ c = Null
    THEN /\ \A d \in Sessions : Sent(d, k) = 0 /\ SendJobs(reactions[d], k) = 0
         /\ SendJobs(microtasks, k) = 0
    ELSE /\ \A d \in Sessions \ {c} : Sent(d, k) = 0 /\ SendJobs(reactions[d], k) = 0
         /\ \A i \in DOMAIN microtasks :
               (microtasks[i].kind = "sendThen" /\ microtasks[i].chunk = k)
                   => microtasks[i].p = c
         /\ promise[c] = "pending"
               => /\ SendJobs(reactions[c], k) = 1
                  /\ SendJobs(microtasks, k) = 0
                  /\ Sent(c, k) = 0
         /\ promise[c] = "resolved"
               => /\ SendJobs(reactions[c], k) = 0
                  /\ SendJobs(microtasks, k) + Sent(c, k) = 1
         /\ promise[c] = "rejected"
               => /\ SendJobs(reactions[c], k) = 0
                  /\ SendJobs(microtasks, k) <= 1
                  /\ Sent(c, k) = 0

\* C9: sendAudioForTranscription never throws. Without a handle it sends
\* nothing and changes no state. With a handle the chunk waits behind the
\* connection promise and is handed to sendRealtimeInput exactly once, after
\* the promise has resolved; if the promise rejects the chunk is dropped and
\* the rejection is caught.
C9_SendQueuedOnceOrDropped ==
    /\ [](\A k \in Chunks : ChunkAccounted(k))
    /\ [](op.name = "send" => op.outcome \in {"dropped", "queued"})
    /\ [](op.name = "sendThen"
            => /\ op.outcome \in {"sent", "threwCaught", "rejectedCaught"}
               /\ op.outcome = "rejectedCaught" <=> promise[op.id] = "rejected")
    /\ [][(op'.name = "send" /\ liveSessionPromise = Null)
            => /\ UNCHANGED service
               /\ calls' = <<>>
               /\ op'.outcome = "dropped"]_vars

\* A chunk handed over while the promise was pending is on the wire once.
C9_Witness ==
    \E k \in Chunks :
        /\ k <= nextChunk
        /\ handedTo[k].sess # Null
        /\ handedTo[k].state = "pending"
        /\ promise[handedTo[k].sess] = "resolved"
        /\ Sent(handedTo[k].sess, k) = 1
        /\ microtasks = <<>>

\* C10: the chunks of one session reach its connection in the order of the
\* send calls (chunks are numbered in call order).
C10_ChunksInCallOrder ==
    \A c \in Sessions :
        \A i, j \in DOMAIN wire[c] :
            (i < j /\ wire[c][i] # Close /\ wire[c][j] # Close)
                => wire[c][i] < wire[c][j]

\* A chunk queued while the promise was pending and a chunk handed over after
\* it resolved are both on the wire.
C10_Witness ==
    \E c \in Sessions : \E k1, k2 \in Chunks :
        /\ k1 < k2 /\ k2 <= nextChunk
        /\ handedTo[k1] = [sess |-> c, state |-> "pending"]
        /\ handedTo[k2] = [sess |-> c, state |-> "resolved"]
        /\ Sent(c, k1) = 1
        /\ Sent(c, k2) = 1

\* C11: a stop call that finds no handle returns at once: it reports no error,
\* invokes no callback, asks no connection to close, registers no reaction
\* and leaves the handle and every session's state as they were.
C11_StopWithoutSessionIsNoOp ==
    [][(op'.name = "stop" /\ liveSessionPromise = Null)
          => /\ UNCHANGED service
             /\ UNCHANGED <<nextChunk, handedTo, stops>>
             /\ calls' = <<>>
             /\ op'.outcome = "noSession"]_vars

\* A stop call found no handle although a session had been started: its
\* error event had cleared the handle, and its connection is untouched.
C11_Witness ==
    /\ op.name = "stop"
    /\ op.outcome = "noSession"
    /\ \E c \in Sessions : sock[c] = "errored" /\ Close \notin Range(wire[c])

\* ==== the chat service (src/App.tsx lines 59-111) ===========================
\* Variant: the whole map is emptied (chats.clear()).
AllDeleted(m, P) == [Q \in Personalities |-> Null]

\* chats.delete(personality)
Deleted(m, P) == [m EXCEPT ![P] = Null]

\* The count of removed entries after chats.delete(P) on the map m.
RemovedAfterDelete(m, P) ==
    [removed EXCEPT ![P] = IF m[P] # Null THEN @ + 1 ELSE @]

\* Variant: the lookup never finds a cached Chat.
NeverCached(P) == FALSE

\* if (chats.has(personality)) return chats.get(personality)
Cached(P) == chats[P] # Null

\* How getChatInstance(P) ends: it returns the cached Chat, throws for the
\* missing API key, throws because ai.chats.create threw, or returns the
\* Chat it created and cached.
LookupOutcome(P, createThrows) ==
    IF Cached(P) THEN "cached"
    ELSE IF ~apiKey THEN "noKey"
    ELSE IF createThrows THEN "createThrew"
    ELSE "created"

\* Variant: the catch block rethrows without touching the cache.
CacheKeptAfterFailure(m, P) == m

\* catch (error) { ...; chats.delete(personality); throw new Error(...) }
CacheAfterFailure(m, P) == Deleted(m, P)

\* sendMessageToAI up to its await: the lookup and, on a Chat, the
\* sendMessage call; a lookup that throws is caught by the catch block at
\* once and the returned promise is rejected.
BeginTurn(P, createThrows) ==
    /\ nextTurn < MaxTurns
    /\ LET t == nextTurn + 1
           how == LookupOutcome(P, createThrows)
       IN /\ nextTurn' = t
          /\ chatOp' = ChatOp("send", P, t, how)
          /\ CASE how = "cached" ->
                    /\ turn' = [turn EXCEPT ![t] = Turn("inflight", P, chats[P], removed[P])]
                    /\ UNCHANGED <<chats, created, removed>>
               [] how = "created" ->
                    /\ created' = created + 1
                    /\ chats' = [chats EXCEPT ![P] = created + 1]
                    /\ turn' = [turn EXCEPT ![t] = Turn("inflight", P, created + 1, removed[P])]
                    /\ UNCHANGED removed
               [] OTHER ->
                    /\ chats' = CacheAfterFailure(chats, P)
                    /\ removed' = RemovedAfterDelete(chats, P)
                    /\ turn' = [turn EXCEPT ![t] = Turn("failed", P, Null, removed[P])]
                    /\ UNCHANGED created

\* chatInstance.sendMessage settles and sendMessageToAI resumes: it returns
\* result.text, or runs its catch block.
EndTurn(t, ok) ==
    /\ turn[t].state = "inflight"
    /\ turn' = [turn EXCEPT ![t].state = IF ok THEN "ok" ELSE "failed"]
    /\ chatOp' = ChatOp(IF ok THEN "replied" ELSE "rejected", turn[t].p, t, "")
    /\ IF ok
       THEN UNCHANGED <<chats, removed>>
       ELSE /\ chats' = CacheAfterFailure(chats, turn[t].p)
            /\ removed' = RemovedAfterDelete(chats, turn[t].p)
    /\ UNCHANGED <<created, nextTurn>>

\* Variant: an entry is left alone while a turn on its Chat is in flight.
KeptWhileInFlight(m, P) ==
    IF \E t \in Turns : turn[t].state = "inflight" /\ turn[t].sess = m[P] /\ m[P] # Null
    THEN m
    ELSE Deleted(m, P)

\* clearChatHistory: chats.delete(personality)
CacheAfterClear(m, P) == Deleted(m, P)

\* ---- the service under any caller -----------------------------------------
clearChatHistory(P) ==
    /\ chats' = CacheAfterClear(chats, P)
    /\ removed' = [removed EXCEPT ![P] = IF chats'[P] # chats[P] THEN @ + 1 ELSE @]
    /\ chatOp' = ChatOp("clear", P, 0, "")
    /\ UNCHANGED <<created, turn, nextTurn>>
    /\ UNCHANGED <<apiKey, live, mic, video, videoScreen, request, chatScreen>>

sendMessageToAI(P, createThrows) ==
    /\ BeginTurn(P, createThrows)
    /\ UNCHANGED <<apiKey, live, mic, video, videoScreen, request, chatScreen>>

\* The provider answers turn t.
SendMessageReturns(t) ==
    /\ EndTurn(t, TRUE)
    /\ UNCHANGED <<apiKey, live, mic, video, videoScreen, request, chatScreen>>

\* The provider call of turn t fails.
SendMessageThrows(t) ==
    /\ EndTurn(t, FALSE)
    /\ UNCHANGED <<apiKey, live, mic, video, videoScreen, request, chatScreen>>

ChatNext ==
    \/ \E P \in Personalities : clearChatHistory(P)
    \/ \E P \in Personalities, createThrows \in BOOLEAN : sendMessageToAI(P, createThrows)
    \/ \E t \in Turns : SendMessageReturns(t)
    \/ \E t \in Turns : SendMessageThrows(t)

SpecChat == Init /\ [][ChatNext]_vars

\* ---- properties of the chat service ----------------------------------------
\* A turn whose lookup returned a Chat.
Looked(t) == turn[t].sess # Null

\* C12: two lookups for the same personality with no removal of its cache
\* entry between them (by clearChatHistory or by a failed turn) return the
\* same Chat; two lookups with a removal between them return different
\* Chats; and ai.chats.create has been called exactly once per Chat returned.
C12_LookupsShareChatUntilInvalidated ==
    /\ \A t1, t2 \in Turns :
          (Looked(t1) /\ Looked(t2) /\ turn[t1].p = turn[t2].p)
             => (turn[t1].sess = turn[t2].sess <=> turn[t1].epoch = turn[t2].epoch)
    /\ created = Cardinality({turn[t].sess : t \in {u \in Turns : Looked(u)}})

\* Two answered turns of one personality shared a Chat; its entry was then
\* cleared, and the next turn of that personality runs on a new Chat.
C12_Witness ==
    \E P \in Personalities :
        /\ turn[1] = Turn("ok", P, 1, 0)
        /\ turn[2] = Turn("ok", P, 1, 0)
        /\ turn[3] = Turn("inflight", P, 2, 1)
        /\ chats[P] = 2

\* C13: when sendMessageToAI fails (no API key, ai.chats.create throws, or
\* sendMessage rejects), the cache holds no entry for its personality when
\* the error is thrown; the Chat of a failed turn is never the cached one,
\* and no turn begun afterwards is sent on it.
C13_FailureEvictsChat ==
    /\ (\/ chatOp.name = "rejected"
        \/ chatOp.name = "send" /\ chatOp.outcome \in {"noKey", "createThrew"})
          => chats[chatOp.p] = Null
    /\ \A t \in Turns :
          (turn[t].state = "failed" /\ Looked(t))
             => /\ chats[turn[t].p] # turn[t].sess
                /\ (chatOp.name = "send" /\ chatOp.turn # t)
                      => turn[chatOp.turn].sess # turn[t].sess

\* A turn was rejected by the provider, and the next turn of the same
\* personality has just been sent on a Chat created for it.
C13_Witness ==
    \E P \in Personalities :
        /\ turn[1] = Turn("failed", P, 1, 0)
        /\ chatOp = ChatOp("send", P, 2, "created")
        /\ turn[2] = Turn("inflight", P, 2, 1)

\* C14: clearChatHistory(P) leaves no entry for P whatever the state of the
\* turns, changes nothing else, changes nothing at all when P has no entry,
\* and clearing twice gives the cache that clearing once gives.
C14_ClearIsUnconditionalAndIdempotent ==
    /\ [](\A P \in Personalities :
             CacheAfterClear(CacheAfterClear(chats, P), P) = CacheAfterClear(chats, P))
    /\ [][chatOp'.name = "clear"
            => /\ chats' = [chats EXCEPT ![chatOp'.p] = Null]
               /\ UNCHANGED <<created, turn, nextTurn>>
               /\ chats[chatOp'.p] = Null => UNCHANGED <<chats, removed>>]_vars

\* The entry of a personality was cleared while a turn on its Chat was in
\* flight.
C14_Witness ==
    /\ chatOp.name = "clear"
    /\ chats[chatOp.p] = Null
    /\ \E t \in Turns :
          turn[t].state = "inflight" /\ turn[t].p = chatOp.p /\ Looked(t)

\* ==== the chat screen (ChatMode.tsx, ChatInput.tsx) =========================
\* Texts the user may submit; " " is blank after trim().
Inputs == {" ", "hi"}

Trimmed(inputText) == IF inputText = " " THEN "" ELSE inputText

\* ChatInput.handleSubmit: if (inputText.trim() && !isLoading)
Submits(inputText) == Trimmed(inputText) # "" /\ ~isLoading

\* The catch and finally blocks of handleSendMessage for turn t.
ShowFailure(list, t) ==
    /\ error' = TRUE
    /\ messages' = Append(list, Message("model", "apology", t))
    /\ isLoading' = FALSE

\* Variant: the reply is shown and the finally block is missing.
ReplyKeepsLoading(list, t) ==
    /\ messages' = Append(list, Message("model", "reply", t))
    /\ isLoading' = isLoading

\* The rest of the try block and the finally block of handleSendMessage.
ShowReply(list, t) ==
    /\ messages' = Append(list, Message("model", "reply", t))
    /\ isLoading' = FALSE

\* A submit of the input form: ChatInput.handleSubmit, and on a non-blank
\* text while not loading handleSendMessage up to its await. When the lookup
\* throws, sendMessageToAI returns a rejected promise and the catch and
\* finally blocks run as microtasks, before any other event.
handleSendMessage(inputText, createThrows) ==
    IF Submits(inputText)
    THEN /\ BeginTurn(personality, createThrows)
         /\ LET t == nextTurn + 1
                shown == Append(messages, Message("user", "user", t))
            IN IF LookupOutcome(personality, createThrows) \in {"cached", "created"}
               THEN /\ messages' = shown
                    /\ isLoading' = TRUE
                    /\ error' = FALSE
               ELSE ShowFailure(shown, t)
         /\ UNCHANGED <<apiKey, live, mic, video, videoScreen, request, personality>>
    ELSE /\ chatOp' = ChatOp("submit", personality, 0, "ignored")
         /\ UNCHANGED <<chats, created, turn, nextTurn, removed>>
         /\ UNCHANGED <<apiKey, live, mic, video, videoScreen, request, chatScreen>>

\* sendMessageToAI of turn t resolves and handleSendMessage resumes.
ReplyArrives(t) ==
    /\ EndTurn(t, TRUE)
    /\ ShowReply(messages, t)
    /\ UNCHANGED <<apiKey, live, mic, video, videoScreen, request, personality, error>>

\* sendMessageToAI of turn t rejects and handleSendMessage resumes.
FailureArrives(t) ==
    /\ EndTurn(t, FALSE)
    /\ ShowFailure(messages, t)
    /\ UNCHANGED <<apiKey, live, mic, video, videoScreen, request, personality>>

\* The Clear Chat button (disabled while the list holds the greeting only).
handleClearChat ==
    /\ Len(messages) > 1
    /\ chats' = CacheAfterClear(chats, personality)
    /\ removed' = [removed EXCEPT ![personality] =
                      IF chats'[personality] # chats[personality] THEN @ + 1 ELSE @]
    /\ chatOp' = ChatOp("clear", personality, 0, "")
    /\ messages' = <<initialMessage>>
    /\ error' = FALSE
    /\ isLoading' = FALSE
    /\ UNCHANGED <<created, turn, nextTurn>>
    /\ UNCHANGED <<apiKey, live, mic, video, videoScreen, request, personality>>

\* A personality radio button: onChange={() => setPersonality(p.id)}
setPersonality(P) ==
    /\ personality' = P
    /\ chatOp' = ChatOp("select", P, 0, "")
    /\ UNCHANGED <<chats, created, turn, nextTurn, removed>>
    /\ UNCHANGED <<apiKey, live, mic, video, videoScreen, request, isLoading, error, messages>>

ChatScreenNext ==
    \/ \E inputText \in Inputs, createThrows \in BOOLEAN :
          handleSendMessage(inputText, createThrows)
    \/ \E t \in Turns : ReplyArrives(t)
    \/ \E t \in Turns : FailureArrives(t)
    \/ handleClearChat
    \/ \E P \in Personalities : setPersonality(P)

SpecChatScreen == Init /\ [][ChatScreenNext]_vars

\* While calls of sendMessageToAI are awaited, one of them settles and the
\* continuation of handleSendMessage runs.
SpecChatScreenFair ==
    SpecChatScreen /\ WF_vars(\E t \in Turns : ReplyArrives(t) \/ FailureArrives(t))

\* ---- properties of the chat screen -----------------------------------------
\* C15: under any sequence of submit, personality switch and Clear Chat, no
\* two sendMessageToAI calls are in flight on the same Chat. The code
\* violates it: Clear Chat resets isLoading while a turn is in flight, and it
\* clears the entry of the personality selected now, not of the turn's.
C15_OneTurnInFlightPerChat ==
    \A t1, t2 \in Turns :
        (/\ t1 # t2
         /\ turn[t1].state = "inflight"
         /\ turn[t2].state = "inflight")
            => turn[t1].sess # turn[t2].sess

\* ==== generateVideo (src/App.tsx lines 168-233) =============================
\* Reports with done false that one job makes.
MaxPolls == 3

\* Messages of the provider's errors; the first two are the signatures the
\* video screen looks for.
ProviderTexts ==
    {"RESOURCE_EXHAUSTED", "You exceeded your current quota",
     "Requested entity was not found",
     "Requested entity was not found: RESOURCE_EXHAUSTED", "internal"}

\* response.statusText of a fetch that is not ok; "" is a legal status text.
StatusTexts == {"", "Forbidden"}

Prompts == {"", "a cat"}
AspectRatios == {"16:9", "9:16"}

\* What the provider may answer to the submission and to a poll.
Operations ==
    {Operation(FALSE, <<>>, <<>>)}
    \cup {Operation(TRUE, err, uri) :
            err \in {<<>>} \cup {<<m>> : m \in ProviderTexts},
            uri \in {<<>>, <<"https://video">>}}

\* Variant: the loop does not stop on a done operation.
LoopNeverEnds(o) == TRUE

\* Variant: the loop gives up after two polls.
LoopBounded(o) == ~o.done /\ polls < 2

\* while (!operation.done)
LoopContinues(o) == ~o.done

\* Variant: the error of the operation is not looked at.
ErrorIgnored(o) == FALSE

\* if (operation.error)
HasError(o) == o.error # <<>>

\* Variant: the download link is used unchecked.
LinkAssumed(o) == TRUE

\* const downloadLink = operation.response?.generatedVideos?.[0]?.video?.uri
\* is truthy.
HasLink(o) == o.uri # <<>> /\ o.uri # <<"">>

\* What generateVideo does with the operation it has just received.
Verdict(o) ==
    IF LoopContinues(o) THEN "again"
    ELSE IF HasError(o) THEN "generationFailed"
    ELSE IF ~HasLink(o) THEN "noLink"
    ELSE "fetch"

GenerationFailure(o) == Failure("generation", "Video generation failed: " \o o.error[1])
NoLinkFailure == Failure("noLink", "Video generation failed to produce a download link.")

\* Variant: a fetch that is not ok is reported as a failed generation.
FetchFailureAsGeneration(statusText) ==
    Failure("fetchStatus", "Video generation failed: " \o statusText)

FetchFailure(statusText) == Failure("fetchStatus", "Failed to fetch video: " \o statusText)

\* Variant: the body of the loop polls first and waits afterwards. out is the
\* number of polls outstanding when the operation was received.
PollWithoutDelay(out) ==
    /\ videoPc' = "polling"
    /\ polls' = polls + 1
    /\ outstanding' = out + 1

\* await new Promise(resolve => setTimeout(resolve, 10000))
StartDelay(out) ==
    /\ videoPc' = "waiting"
    /\ polls' = polls
    /\ outstanding' = out

\* From receiving an operation to the next await, yield or throw.
Observe(o, out) ==
    /\ operation' = o
    /\ reports' = IF o.done THEN reports ELSE reports + 1
    /\ CASE Verdict(o) = "again" ->
              /\ StartDelay(out)
              /\ UNCHANGED <<events, failure>>
         [] Verdict(o) = "generationFailed" ->
              /\ videoPc' = "failed"
              /\ failure' = GenerationFailure(o)
              /\ polls' = polls /\ outstanding' = out
              /\ UNCHANGED events
         [] Verdict(o) = "noLink" ->
              /\ videoPc' = "failed"
              /\ failure' = NoLinkFailure
              /\ polls' = polls /\ outstanding' = out
              /\ UNCHANGED events
         [] OTHER ->
              /\ videoPc' = "yieldedFetching"
              /\ events' = Append(events, Update("fetching", <<>>))
              /\ polls' = polls /\ outstanding' = out
              /\ UNCHANGED failure

\* ---- the consumer: the for await loop and the catch block of handleSubmit ---
\* String.prototype.includes
Includes(s, sub) ==
    \E i \in 1..(Len(s) - Len(sub) + 1) : SubSeq(s, i, i + Len(sub) - 1) = sub

\* err instanceof Error ? err.message : 'An unknown error occurred.'
\* (the reader's error event is the only thrown value that is not an Error)
ErrorMessage(f) ==
    IF f.cause = "fileReadEvent" THEN "An unknown error occurred." ELSE f.message

IsQuota(m) == Includes(m, "RESOURCE_EXHAUSTED") \/ Includes(m, "exceeded your current quota")
IsPermission(m) == Includes(m, "Requested entity was not found")

\* Variant: the permission signature is looked for first.
ClassPermissionFirst(m) ==
    IF IsPermission(m) THEN "permission"
    ELSE IF IsQuota(m) THEN "quota"
    ELSE "generic"

\* The branch of the catch block taken for the message m.
Class(m) ==
    IF IsQuota(m) THEN "quota"
    ELSE IF IsPermission(m) THEN "permission"
    ELSE "generic"

\* The error the catch block sets.
Classified(m) ==
    CASE Class(m) = "quota" ->
           ScreenError("You've exceeded your video generation quota. Please check your plan and billing details, or try again later.", TRUE)
      [] Class(m) = "permission" ->
           ScreenError("Your API key may be invalid or missing required permissions. Please select a valid key.", FALSE)
      [] OTHER -> ScreenError("Failed to generate video: " \o m, FALSE)

\* What VideoMode does on the step just taken by the generator: the
\* statements of handleSubmit before the loop on a call, the body of the
\* loop on an update, the catch block on a throw.
Consume ==
    /\ UNCHANGED <<videoForm, keyHost>>
    /\ CASE videoPc' = "failed" ->
              /\ status' = "error"
              /\ videoError' = Classified(ErrorMessage(failure'))
              /\ apiKeyOk' = IF Class(ErrorMessage(failure')) = "permission"
                              THEN FALSE ELSE apiKeyOk
              /\ videoUrl' = IF videoOp'.name = "call" THEN <<>> ELSE videoUrl
         [] videoPc' = "yieldedFetching" ->
              /\ status' = "fetching"
              /\ UNCHANGED <<videoUrl, videoError, apiKeyOk>>
         [] videoPc' = "completed" ->
              /\ videoUrl' = events'[Len(events')].url
              /\ status' = "completed"
              /\ UNCHANGED <<videoError, apiKeyOk>>
         [] videoPc' \notin {"failed", "yieldedFetching", "completed"}
               /\ videoOp'.name = "call" ->
              /\ status' = "generating"
              /\ videoError' = NoScreenError
              /\ videoUrl' = <<>>
              /\ UNCHANGED apiKeyOk
         [] OTHER -> UNCHANGED <<videoUrl, status, videoError, apiKeyOk>>

\* log: the submissions the call has made before.
Submit(log) ==
    /\ videoPc' = "submitting"
    /\ submitted' = Append(log, payload')

\* The call and the consumer's first next(): the API key check, the payload,
\* and either the file read or the submission.
StartCall(prompt, imageFile, aspectRatio) ==
    /\ videoOp' = VideoOp("call", prompt)
    /\ IF ~apiKey
       THEN /\ videoPc' = "failed"
            /\ failure' = Failure("config", "API_KEY environment variable not set")
            /\ payload' = NoPayload
            /\ submitted' = <<>>
       ELSE /\ payload' = Payload(IF prompt # "" THEN <<prompt>> ELSE <<>>,
                                  FALSE, aspectRatio)
            /\ IF imageFile
               THEN videoPc' = "reading" /\ submitted' = <<>>
               ELSE Submit(<<>>)
            /\ failure' = NoFailure
    /\ operation' = NoOperation
    /\ reports' = 0
    /\ polls' = 0
    /\ outstanding' = 0
    /\ timers' = 0
    /\ fetches' = 0
    /\ events' = <<>>

\* A first call, with any arguments, consumed by the for await loop of
\* VideoMode.handleSubmit.
generateVideo(prompt, imageFile, aspectRatio) ==
    /\ videoPc = "idle"
    /\ StartCall(prompt, imageFile, aspectRatio)
    /\ UNCHANGED <<apiKey, live, mic, chat, request>>
    /\ Consume

\* ---- fileToGenerativePart (shared with analyzeMedia) -----------------------
\* How the FileReader ends: "read" (onloadend with a string result),
\* "notString" (onloadend with another result) or "readerError" (onerror).
ReadOutcomes == {"read", "notString", "readerError"}

\* Variant: the promise resolves whatever the reader reports.
ReadAlwaysOk(outcome) == TRUE

\* The promise of fileToGenerativePart resolves.
ReadOk(outcome) == outcome = "read"

\* What the promise rejects with: the Error of line 119, or the reader's
\* error event, which is no Error and carries no message.
ReadFailure(outcome) ==
    IF outcome = "notString"
    THEN Failure("fileRead", "Failed to read file as base64.")
    ELSE Failure("fileReadEvent", "")

\* fileToGenerativePart settles within generateVideo: the payload gets its
\* image and the job is submitted, or the generator throws.
FileRead(outcome) ==
    /\ videoPc = "reading"
    /\ videoOp' = VideoOp("fileRead", outcome)
    /\ IF ReadOk(outcome)
       THEN /\ payload' = [payload EXCEPT !.image = TRUE]
            /\ Submit(submitted)
            /\ UNCHANGED failure
       ELSE /\ videoPc' = "failed"
            /\ failure' = ReadFailure(outcome)
            /\ UNCHANGED <<payload, submitted>>
    /\ UNCHANGED <<operation, reports, polls, outstanding, timers, fetches, events>>
    /\ UNCHANGED <<apiKey, live, mic, chat, request>>
    /\ Consume

\* The job can still report done false.
MayReport(o) == o.done \/ reports < MaxPolls

SubmitReturns(o) ==
    /\ videoPc = "submitting"
    /\ MayReport(o)
    /\ videoOp' = VideoOp("submitReturns", "")
    /\ Observe(o, outstanding)
    /\ UNCHANGED <<payload, submitted, timers, fetches>>
    /\ UNCHANGED <<apiKey, live, mic, chat, request>>
    /\ Consume

SubmitThrows(e) ==
    /\ videoPc = "submitting"
    /\ videoOp' = VideoOp("submitThrows", e)
    /\ videoPc' = "failed"
    /\ failure' = Failure("submit", e)
    /\ UNCHANGED <<payload, submitted, operation, reports, polls, outstanding, timers, fetches, events>>
    /\ UNCHANGED <<apiKey, live, mic, chat, request>>
    /\ Consume

\* The 10 s timer fires and the poll is issued:
\* operation = await ai.operations.getVideosOperation({ operation })
TimerFires ==
    /\ videoPc = "waiting"
    /\ videoOp' = VideoOp("poll", "")
    /\ timers' = timers + 1
    /\ polls' = polls + 1
    /\ outstanding' = outstanding + 1
    /\ videoPc' = "polling"
    /\ UNCHANGED <<payload, submitted, operation, reports, fetches, events, failure>>
    /\ UNCHANGED <<apiKey, live, mic, chat, request>>
    /\ Consume

PollReturns(o) ==
    /\ videoPc = "polling"
    /\ MayReport(o)
    /\ videoOp' = VideoOp("pollReturns", "")
    /\ Observe(o, outstanding - 1)
    /\ UNCHANGED <<payload, submitted, timers, fetches>>
    /\ UNCHANGED <<apiKey, live, mic, chat, request>>
    /\ Consume

\* Variant: a failed poll is logged and the loop goes round again.
PollRetried(e) ==
    /\ videoPc' = "waiting"
    /\ failure' = failure

\* catch (e) { console.error(...); throw e; }
PollFailed(e) ==
    /\ videoPc' = "failed"
    /\ failure' = Failure("poll", e)

PollThrows(e) ==
    /\ videoPc = "polling"
    /\ videoOp' = VideoOp("pollThrows", e)
    /\ outstanding' = outstanding - 1
    /\ PollFailed(e)
    /\ UNCHANGED <<payload, submitted, operation, reports, polls, timers, fetches, events>>
    /\ UNCHANGED <<apiKey, live, mic, chat, request>>
    /\ Consume

\* The consumer asks for the update after 'fetching': the generator resumes
\* and calls fetch.
NextAfterFetching ==
    /\ videoPc = "yieldedFetching"
    /\ videoOp' = VideoOp("fetch", "")
    /\ fetches' = fetches + 1
    /\ videoPc' = "fetching"
    /\ UNCHANGED <<payload, submitted, operation, reports, polls, outstanding, timers, events, failure>>
    /\ UNCHANGED <<apiKey, live, mic, chat, request>>
    /\ Consume

\* fetch resolves with a response: if (!response.ok) throw ...
FetchReturns(ok, statusText) ==
    /\ videoPc = "fetching"
    /\ videoOp' = VideoOp(IF ok THEN "fetchOk" ELSE "fetchNotOk", statusText)
    /\ IF ok
       THEN /\ videoPc' = "readingBlob"
            /\ UNCHANGED failure
       ELSE /\ videoPc' = "failed"
            /\ failure' = FetchFailure(statusText)
    /\ UNCHANGED <<payload, submitted, operation, reports, polls, outstanding, timers, fetches, events>>
    /\ UNCHANGED <<apiKey, live, mic, chat, request>>
    /\ Consume

\* fetch rejects (no response at all).
FetchThrows ==
    /\ videoPc = "fetching"
    /\ videoOp' = VideoOp("fetchThrows", "")
    /\ videoPc' = "failed"
    /\ failure' = Failure("fetchNetwork", "Failed to fetch")
    /\ UNCHANGED <<payload, submitted, operation, reports, polls, outstanding, timers, fetches, events>>
    /\ UNCHANGED <<apiKey, live, mic, chat, request>>
    /\ Consume

\* response.blob() settles; on success URL.createObjectURL and the last yield.
BlobRead(ok) ==
    /\ videoPc = "readingBlob"
    /\ videoOp' = VideoOp(IF ok THEN "blobRead" ELSE "blobThrows", "")
    /\ IF ok
       THEN /\ videoPc' = "completed"
            /\ events' = Append(events, Update("completed", <<"blob:video">>))
            /\ UNCHANGED failure
       ELSE /\ videoPc' = "failed"
            /\ failure' = Failure("blob", "Failed to fetch")
            /\ UNCHANGED events
    /\ UNCHANGED <<payload, submitted, operation, reports, polls, outstanding, timers, fetches>>
    /\ UNCHANGED <<apiKey, live, mic, chat, request>>
    /\ Consume

VideoNext ==
    \/ \E prompt \in Prompts, imageFile \in BOOLEAN, aspectRatio \in AspectRatios :
          generateVideo(prompt, imageFile, aspectRatio)
    \/ \E outcome \in ReadOutcomes : FileRead(outcome)
    \/ \E o \in Operations : SubmitReturns(o)
    \/ \E e \in ProviderTexts : SubmitThrows(e)
    \/ TimerFires
    \/ \E o \in Operations : PollReturns(o)
    \/ \E e \in ProviderTexts : PollThrows(e)
    \/ NextAfterFetching
    \/ \E ok \in BOOLEAN, statusText \in StatusTexts : FetchReturns(ok, statusText)
    \/ FetchThrows
    \/ \E ok \in BOOLEAN : BlobRead(ok)

SpecVideo == Init /\ [][VideoNext]_vars

\* ---- properties of generateVideo -------------------------------------------
Fetching == Update("fetching", <<>>)

\* C16: the call makes one poll per not-done operation it has seen and none
\* once it has seen a done one; when the done operation carries a link and no
\* error and the fetch and the body read succeed, the updates yielded are
\* exactly 'fetching' and then 'completed' with a url.
C16_PollsMatchReportsThenTwoEvents ==
    /\ polls <= reports
    /\ operation.done => polls = reports
    /\ videoPc = "completed"
          => /\ operation.done /\ operation.error = <<>> /\ operation.uri # <<>>
             /\ fetches = 1
             /\ Len(events) = 2
             /\ events[1] = Fetching
             /\ events[2].status = "completed"
             /\ events[2].url # <<>>

\* The job reported not done as often as the bound allows, and the call
\* completed.
C16_Witness ==
    /\ videoPc = "completed"
    /\ reports = MaxPolls
    /\ polls = MaxPolls

\* C17: when the done operation carries an error, the call has thrown
\* "Video generation failed: " followed by that error's message, has yielded
\* no update and has made no fetch.
C17_GenerationErrorFailsBeforeFetch ==
    (operation.done /\ operation.error # <<>>)
        => /\ videoPc = "failed"
           /\ failure.message = "Video generation failed: " \o operation.error[1]
           /\ events = <<>>
           /\ fetches = 0

\* A poll returned a done operation with an error and a link.
C17_Witness ==
    /\ videoOp.name = "pollReturns"
    /\ operation = Operation(TRUE, <<"internal">>, <<"https://video">>)
    /\ failure.cause = "generation"

\* C18: when the fetch returns a response that is not ok, the call has thrown
\* after yielding 'fetching' only; its message is "Failed to fetch video: "
\* followed by the status text, which is the message of no failed generation
\* and of no failed poll, and failed generations and failed polls have
\* yielded no update.
C18_FetchFailureIsDistinct ==
    /\ videoOp.name = "fetchNotOk"
          => /\ videoPc = "failed"
             /\ failure.cause = "fetchStatus"
             /\ events = <<Fetching>>
             /\ failure.message = "Failed to fetch video: " \o videoOp.text
    /\ failure.cause = "fetchStatus"
          => /\ failure.message \notin ProviderTexts
             /\ \A m \in ProviderTexts \cup StatusTexts :
                   failure.message # "Video generation failed: " \o m
    /\ failure.cause \in {"generation", "poll"} => events = <<>>

\* The fetch of a video generated after two polls returned 403 Forbidden.
C18_Witness ==
    /\ videoOp = VideoOp("fetchNotOk", "Forbidden")
    /\ failure.message = "Failed to fetch video: Forbidden"
    /\ polls = 2

\* C19: a poll that throws ends the call with that poll's error: no update
\* has been yielded, no fetch made, no poll is outstanding, and afterwards
\* the call makes no further poll, fetch or yield.
C19_FailedPollIsNotRetried ==
    /\ [](videoOp.name = "pollThrows"
            => /\ videoPc = "failed"
               /\ failure = Failure("poll", videoOp.text)
               /\ events = <<>>
               /\ fetches = 0
               /\ outstanding = 0)
    /\ [][failure.cause = "poll"
            => UNCHANGED <<polls, timers, fetches, events, failure>>]_vars

\* The third poll of a job threw after two polls had returned not done.
C19_Witness ==
    /\ videoOp.name = "pollThrows"
    /\ polls = 3
    /\ reports = 3
    /\ failure.cause = "poll"

\* C20: at most one poll is outstanding, a poll is outstanding exactly while
\* the call awaits it, and every poll was issued by a timer that fired after
\* the previous operation was received: polls and fired timers are equal in
\* number.
C20_PollsSequentialAndDelayed ==
    /\ outstanding \in {0, 1}
    /\ outstanding = 1 <=> videoPc = "polling"
    /\ polls = timers
    /\ videoPc = "waiting" => polls < reports

\* The second poll is outstanding.
C20_Witness ==
    /\ videoPc = "polling"
    /\ polls = 2
    /\ timers = 2
    /\ outstanding = 1

\* The event loop runs the consumer's next() after 'fetching', and the fetch
\* and the body read settle (with a response, or with a network error).
SpecVideoFair ==
    /\ SpecVideo
    /\ WF_vars(NextAfterFetching)
    /\ WF_vars(FetchThrows \/ \E ok \in BOOLEAN, statusText \in StatusTexts :
                                 FetchReturns(ok, statusText))
    /\ WF_vars(\E ok \in BOOLEAN : BlobRead(ok))

InLoop == videoPc \in {"waiting", "polling"}

\* C21: the call leaves the polling loop only on a poll that returns a done
\* operation or on a poll that throws; after an operation that is not done it
\* is waiting or polling (or a poll has thrown), however many polls it has
\* made, and the timer it waits for can always fire; once a done operation
\* has been received the call ends completed or failed.
C21_LoopEndsOnlyOnDoneOrFailedPoll ==
    /\ [][(InLoop /\ ~InLoop')
            => \/ videoOp'.name = "pollThrows"
               \/ videoOp'.name = "pollReturns" /\ operation'.done]_vars
    /\ []((reports > 0 /\ ~operation.done) => (InLoop \/ failure.cause = "poll"))
    /\ [](videoPc = "waiting" => ENABLED TimerFires)
    /\ operation.done ~> videoPc \in {"completed", "failed"}

\* The job reported not done as often as the bound allows; the last poll
\* returned a done operation without a link and the call failed.
C21_Witness ==
    /\ videoPc = "failed"
    /\ failure.cause = "noLink"
    /\ polls = MaxPolls
    /\ videoOp.name = "pollReturns"

\* ==== the video screen (src/unnamed/part_000, VideoMode) ====================
\* Texts of the prompt field; " " is blank after trim() and still truthy.
ScreenPrompts == {"", " ", "a cat"}

\* The openSelectKey() dialogs of the host awaited at once.
MaxDialogs == 2

\* Files the user may choose: one within the 20 MB limit, one above it.
Files == {"small", "large"}

\* const isLoading = status === 'generating' || status === 'fetching'
VideoLoading == status \in {"generating", "fetching"}

\* The screen's handlers leave the generator alone.
GeneratorIdle(name, text) ==
    /\ videoOp' = VideoOp(name, text)
    /\ UNCHANGED <<videoPc, payload, submitted, operation, reports, polls, outstanding,
                   timers, fetches, events, failure>>
    /\ UNCHANGED <<apiKey, live, mic, chat, request>>

\* The effect run on mount calls hasSelectedApiKey() and awaits it; this is
\* the continuation, run whenever the host answers: setApiKeyOk(hasKey).
checkApiKey(hasKey) ==
    /\ keyCheckPending
    /\ keyCheckPending' = FALSE
    /\ apiKeyOk' = hasKey
    /\ GeneratorIdle("checkApiKey", "")
    /\ UNCHANGED <<videoForm, videoUrl, status, videoError, keyDialogs>>

\* The click of the Select API Key button, shown instead of the form while
\* apiKeyOk is false: the handler calls openSelectKey() and awaits it.
handleSelectKey ==
    /\ ~apiKeyOk
    /\ keyDialogs < MaxDialogs
    /\ keyDialogs' = keyDialogs + 1
    /\ GeneratorIdle("selectKey", "")
    /\ UNCHANGED <<videoForm, videoUrl, status, videoError, apiKeyOk, keyCheckPending>>

\* The continuation of handleSelectKey, run whenever the host's dialog
\* resolves: setApiKeyOk(true); setError(null).
openSelectKeyResolves ==
    /\ keyDialogs > 0
    /\ keyDialogs' = keyDialogs - 1
    /\ apiKeyOk' = TRUE
    /\ videoError' = NoScreenError
    /\ GeneratorIdle("keySelected", "")
    /\ UNCHANGED <<videoForm, videoUrl, status, keyCheckPending>>

\* The prompt field (disabled while loading).
setPrompt(text) ==
    /\ apiKeyOk /\ ~VideoLoading
    /\ videoPrompt' = text
    /\ GeneratorIdle("setPrompt", text)
    /\ UNCHANGED <<videoImage, videoAspect, videoUrl, status, videoError, apiKeyOk, keyHost>>

\* The aspect ratio radio buttons (disabled while loading).
setAspectRatio(ar) ==
    /\ apiKeyOk /\ ~VideoLoading
    /\ videoAspect' = ar
    /\ GeneratorIdle("setAspectRatio", ar)
    /\ UNCHANGED <<videoPrompt, videoImage, videoUrl, status, videoError, apiKeyOk, keyHost>>

\* The file input (disabled while loading).
handleFileChange(file) ==
    /\ apiKeyOk /\ ~VideoLoading
    /\ IF file = "large"
       THEN /\ videoError' = ScreenError("Image file size should be less than 20MB.", FALSE)
            /\ UNCHANGED <<videoImage, videoUrl>>
       ELSE /\ videoImage' = file
            /\ videoUrl' = <<>>
            /\ videoError' = NoScreenError
    /\ GeneratorIdle("fileChange", file)
    /\ UNCHANGED <<videoPrompt, videoAspect, status, apiKeyOk, keyHost>>

\* The clear button of the preview (shown with a preview while not loading).
handleClearImage ==
    /\ apiKeyOk /\ ~VideoLoading
    /\ videoImage # NoFile
    /\ videoImage' = NoFile
    /\ GeneratorIdle("clearImage", "")
    /\ UNCHANGED <<videoPrompt, videoAspect, videoUrl, status, videoError, apiKeyOk, keyHost>>

\* Variant: the submit handler does not look at the prompt and the image.
NothingRequired == FALSE

\* !prompt.trim() && !imageFile
NothingToSubmit == Trimmed(videoPrompt) = "" /\ videoImage = NoFile

\* status !== 'idle' && status !== 'completed' && status !== 'error'
Busy == status \notin {"idle", "completed", "error"}

\* The submit of the form: the guard, the statements before the loop, and the
\* call of generateVideo with the consumer's first next().
handleSubmit ==
    /\ apiKeyOk
    /\ IF NothingToSubmit \/ Busy
       THEN /\ GeneratorIdle("submit", "ignored")
            /\ UNCHANGED videoScreen
       ELSE /\ StartCall(videoPrompt, videoImage # NoFile, videoAspect)
            /\ UNCHANGED <<apiKey, live, mic, chat, request>>
            /\ Consume

VideoScreenNext ==
    \/ \E hasKey \in BOOLEAN : checkApiKey(hasKey)
    \/ handleSelectKey
    \/ openSelectKeyResolves
    \/ \E text \in ScreenPrompts : setPrompt(text)
    \/ \E ar \in AspectRatios : setAspectRatio(ar)
    \/ \E file \in Files : handleFileChange(file)
    \/ handleClearImage
    \/ handleSubmit
    \/ \E outcome \in ReadOutcomes : FileRead(outcome)
    \/ \E o \in Operations : SubmitReturns(o)
    \/ \E e \in ProviderTexts : SubmitThrows(e)
    \/ TimerFires
    \/ \E o \in Operations : PollReturns(o)
    \/ \E e \in ProviderTexts : PollThrows(e)
    \/ NextAfterFetching
    \/ \E ok \in BOOLEAN, statusText \in StatusTexts : FetchReturns(ok, statusText)
    \/ FetchThrows
    \/ \E ok \in BOOLEAN : BlobRead(ok)

SpecVideoScreen == Init /\ [][VideoScreenNext]_vars

\* ---- properties of the video screen ----------------------------------------
\* C22: every payload handed to ai.models.generateVideos by a submit of the
\* screen carries a prompt or an image, and while the submission is awaited
\* the payload carries the prompt of the form exactly when it is not empty
\* and the image exactly when a file is chosen (both when both are given);
\* a form with a blank prompt and no file has submitted nothing.
C22_SubmittedPayloadHasPromptOrImage ==
    /\ Len(submitted) <= 1
    /\ \A i \in DOMAIN submitted : submitted[i].prompt # <<>> \/ submitted[i].image
    /\ videoPc = "submitting"
          => /\ submitted = <<payload>>
             /\ Trimmed(videoPrompt) # "" \/ videoImage # NoFile
             /\ payload.prompt = IF videoPrompt # "" THEN <<videoPrompt>> ELSE <<>>
             /\ payload.image = (videoImage # NoFile)
             /\ payload.aspectRatio = videoAspect

\* A form with a prompt and an image was submitted, the file was read, and
\* the payload on its way carries both.
C22_Witness ==
    /\ videoPc = "submitting"
    /\ videoOp.name = "fileRead"
    /\ submitted = <<Payload(<<"a cat">>, TRUE, "9:16")>>

\* ==== the one-shot calls (src/App.tsx lines 134-165 and 237-263) ============
\* The types of the file handed to analyzeMedia.
MediaTypes == {"image/png", "video/mp4"}

\* The aspect ratios of generateImage's signature.
ImageAspectRatios == {"1:1", "3:4", "4:3", "9:16", "16:9"}

\* Voice names: the two that generateAudio maps, and one it passes on.
Voices == {"Prabhas", "Human", "Kore"}

\* response.text of an analysis.
Replies == {"", "It is a cat."}

\* The length of response.generatedImages.
ImageCounts == {0, 1, 2}

\* candidates?.[0]?.content?.parts?.[0]?.inlineData?.data of a synthesis:
\* <<>> when a link of the chain is absent, else <<data>>.
AudioData == {<<>>, <<"">>, <<"UklGRg==">>}

imageBytes == "/9j/4AAQ"

ReqOp(name, text) == [name |-> name, text |-> text]

ConfigurationError == Failure("config", "API_KEY environment variable not set")

\* The call has ended with an error.
Throws(f) ==
    /\ reqPc' = "failed"
    /\ reqFailure' = f
    /\ UNCHANGED <<remote, reqValue>>

\* The call has ended with a value.
Returns(value) ==
    /\ reqPc' = "returned"
    /\ reqValue' = <<value>>
    /\ UNCHANGED <<remote, reqFailure>>

\* The call awaits the answer to a request it has sent.
Dispatch(call) ==
    /\ reqPc' = "calling"
    /\ remote' = Append(remote, call)
    /\ UNCHANGED <<reqValue, reqFailure>>

\* file.type.startsWith('video/') ? 'gemini-2.5-pro' : 'gemini-2.5-flash'
AnalysisModel(type) ==
    IF Len(type) >= 6 /\ SubSeq(type, 1, 6) = "video/"
    THEN "gemini-2.5-pro"
    ELSE "gemini-2.5-flash"

\* analyzeMedia up to its first await: the key check, then the file is read.
analyzeMedia(prompt, type) ==
    /\ reqPc = "idle"
    /\ reqArgs' = Request("analyzeMedia", prompt, type)
    /\ reqOp' = ReqOp("analyzeMedia", "")
    /\ IF ~apiKey
       THEN Throws(ConfigurationError)
       ELSE /\ reqPc' = "reading"
            /\ UNCHANGED <<remote, reqValue, reqFailure>>
    /\ UNCHANGED <<apiKey, live, mic, chat, video, videoScreen>>

\* fileToGenerativePart settles within analyzeMedia: the analysis request is
\* sent, or the call throws.
MediaRead(outcome) ==
    /\ reqPc = "reading"
    /\ reqOp' = ReqOp("fileRead", outcome)
    /\ IF ReadOk(outcome)
       THEN Dispatch(RemoteCall("generateContent", AnalysisModel(reqArgs.option),
                                reqArgs.text, 0, reqArgs.option))
       ELSE Throws(ReadFailure(outcome))
    /\ UNCHANGED reqArgs
    /\ UNCHANGED <<apiKey, live, mic, chat, video, videoScreen>>

\* return response.text
ContentReturns(text) ==
    /\ reqPc = "calling"
    /\ reqArgs.kind = "analyzeMedia"
    /\ reqOp' = ReqOp("contentReturns", text)
    /\ Returns(text)
    /\ UNCHANGED reqArgs
    /\ UNCHANGED <<apiKey, live, mic, chat, video, videoScreen>>

\* generateImage up to its await: the key check, then the request.
generateImage(prompt, aspectRatio) ==
    /\ reqPc = "idle"
    /\ reqArgs' = Request("generateImage", prompt, aspectRatio)
    /\ reqOp' = ReqOp("generateImage", "")
    /\ IF ~apiKey
       THEN Throws(ConfigurationError)
       ELSE Dispatch(RemoteCall("generateImages", "imagen-4.0-generate-001", prompt, 1,
                                aspectRatio))
    /\ UNCHANGED <<apiKey, live, mic, chat, video, videoScreen>>

\* response.generatedImages[0].image.imageBytes: with no image the read of
\* .image on undefined throws a TypeError.
FirstImage(n) ==
    IF n = 0
    THEN Throws(Failure("typeError",
                        "Cannot read properties of undefined (reading 'image')"))
    ELSE Returns("data:image/jpeg;base64," \o imageBytes)

\* The answer to the image request: n images.
ImagesReturn(n) ==
    /\ reqPc = "calling"
    /\ reqArgs.kind = "generateImage"
    /\ reqOp' = ReqOp("imagesReturn", IF n = 0 THEN "none" ELSE "some")
    /\ FirstImage(n)
    /\ UNCHANGED reqArgs
    /\ UNCHANGED <<apiKey, live, mic, chat, video, videoScreen>>

\* The voice name sent to the provider.
ApiVoiceName(voiceName) ==
    IF voiceName = "Prabhas" THEN "Fenrir"
    ELSE IF voiceName = "Human" THEN "Zephyr"
    ELSE voiceName

\* generateAudio up to its await. The function does not look at the key: it
\* hands process.env.API_KEY to the SDK's constructor, which for an absent
\* key throws or does not (rejectsKey), depending on the key's value and the
\* SDK build.
generateAudio(text, voiceName, rejectsKey) ==
    /\ reqPc = "idle"
    /\ rejectsKey => ~apiKey
    /\ reqArgs' = Request("generateAudio", text, voiceName)
    /\ reqOp' = ReqOp("generateAudio", IF rejectsKey THEN "constructorThrew" ELSE "")
    /\ IF rejectsKey
       THEN Throws(Failure("sdk", "An API Key must be set when running in a browser"))
       ELSE Dispatch(RemoteCall("generateContent", "gemini-2.5-flash-preview-tts", text, 0,
                                ApiVoiceName(voiceName)))
    /\ UNCHANGED <<apiKey, live, mic, chat, video, videoScreen>>

\* The answer to the synthesis request.
AudioReturns(data) ==
    /\ reqPc = "calling"
    /\ reqArgs.kind = "generateAudio"
    /\ reqOp' = ReqOp("audioReturns", IF data = <<>> THEN "none" ELSE data[1])
    /\ IF data = <<>> \/ data = <<"">>
       THEN Throws(Failure("noAudio", "Failed to generate audio data."))
       ELSE Returns(data[1])
    /\ UNCHANGED reqArgs
    /\ UNCHANGED <<apiKey, live, mic, chat, video, videoScreen>>

\* The awaited request rejects: the call throws the provider's error.
RemoteThrows(e) ==
    /\ reqPc = "calling"
    /\ reqOp' = ReqOp("remoteThrows", e)
    /\ Throws(Failure("provider", e))
    /\ UNCHANGED reqArgs
    /\ UNCHANGED <<apiKey, live, mic, chat, video, videoScreen>>

RequestNext ==
    \/ \E prompt \in Prompts, type \in MediaTypes : analyzeMedia(prompt, type)
    \/ \E outcome \in ReadOutcomes : MediaRead(outcome)
    \/ \E text \in Replies : ContentReturns(text)
    \/ \E prompt \in Prompts, aspectRatio \in ImageAspectRatios :
          generateImage(prompt, aspectRatio)
    \/ \E n \in ImageCounts : ImagesReturn(n)
    \/ \E text \in Prompts, voiceName \in Voices, rejectsKey \in BOOLEAN :
          generateAudio(text, voiceName, rejectsKey)
    \/ \E data \in AudioData : AudioReturns(data)
    \/ \E e \in ProviderTexts : RemoteThrows(e)

SpecRequest == Init /\ [][RequestNext]_vars

\* One call of a one-shot entry point beside one call of generateVideo.
SpecMedia == Init /\ [][RequestNext \/ VideoNext]_vars

\* The causes of a failure to read or encode the input file.
ReadCauses == {"fileRead", "fileReadEvent"}

\* C23: in analyzeMedia and in generateVideo with an image, when the file
\* cannot be read the call fails with the reader's error and has sent
\* nothing: no analysis request, no job submission, no poll and no fetch has
\* been issued, then or later.
C23_FileReadFailureBeforeAnyRemoteCall ==
    /\ (reqOp.name = "fileRead" /\ reqOp.text # "read")
           => /\ reqPc = "failed"
              /\ reqFailure.cause \in ReadCauses
              /\ remote = <<>>
    /\ (videoOp.name = "fileRead" /\ videoOp.text # "read")
           => /\ videoPc = "failed"
              /\ failure.cause \in ReadCauses
              /\ submitted = <<>> /\ polls = 0 /\ fetches = 0

\* Both calls have failed on the file, one on a result that is no string, the
\* other on the reader's error event.
C23_Witness ==
    /\ reqArgs.kind = "analyzeMedia"
    /\ reqPc = "failed" /\ reqFailure.cause = "fileRead"
    /\ videoPc = "failed" /\ failure.cause = "fileReadEvent"
    /\ remote = <<>> /\ submitted = <<>>

\* C24: without the API credential an entry point reports a configuration
\* error at once and sends nothing to the provider: a one-shot call that has
\* been made has failed for the missing key (by the function's own check or
\* in the SDK's constructor), and no request, no job submission, no chat
\* session and no transcription connection exists.
\* The code violates it: generateAudio does not look at the credential and
\* sends its request whenever the SDK's constructor accepts the absent key.
C24_NoRemoteCallWithoutCredential ==
    ~apiKey =>
        /\ remote = <<>> /\ submitted = <<>> /\ created = 0 /\ nextId = 0
        /\ reqPc # "idle" => (reqPc = "failed" /\ reqFailure.cause \in {"config", "sdk"})

\* C25: generateImage asks for exactly one image, and when the answer holds
\* no image the call fails with an error of its own that says so, not with
\* a data URI and not with a runtime fault.
\* The code violates it: generatedImages[0] is read unchecked and the call
\* ends with the TypeError of reading .image on undefined.
C25_ZeroImagesIsExplicitError ==
    /\ \A i \in DOMAIN remote :
          remote[i].api = "generateImages" => remote[i].numberOfImages = 1
    /\ (reqOp.name = "imagesReturn" /\ reqOp.text = "none")
           => /\ reqPc = "failed"
              /\ reqFailure.cause \notin {"typeError", "provider"}

\* ==== further properties of the session manager ==============================
\* A message without the fields onmessage reads: no server content, or server
\* content with neither a fragment nor a turn-complete marker.
LacksFields(m) == ~m.serverContent \/ (m.inputTranscription = <<>> /\ ~m.turnComplete)

\* C27: a message that lacks the expected fields is ignored: the step makes no
\* callback (so no error is reported either) and leaves the utterance buffer
\* of every session and the session handle as they were.
C27_MessageWithoutFieldsIsIgnored ==
    [][(op'.name = "message" /\ LacksFields(op'.msg))
          => /\ calls' = <<>>
             /\ currentTranscript' = currentTranscript
             /\ liveSessionPromise' = liveSessionPromise]_vars

\* Such a message has arrived on the current session while an utterance was
\* buffered, and the buffer is still there.
C27_Witness ==
    /\ op.name = "message" /\ LacksFields(op.msg)
    /\ calls = <<>>
    /\ liveSessionPromise = op.id
    /\ currentTranscript[op.id] = "a"

\* A message with both a fragment and the turn-complete marker.
HasBoth(m) == m.serverContent /\ m.inputTranscription # <<>> /\ m.turnComplete

\* The two callbacks of a fragment that is also final.
InterimThenFinal(c, text) == <<OnUpdateCall(c, text, FALSE), OnUpdateCall(c, text, TRUE)>>

\* C29 as stated: a message with both a fragment and the turn-complete marker
\* makes exactly the two callbacks (fragment, false) and (fragment, true), in
\* this order, and leaves the buffer empty. It fails for a fragment whose text
\* is empty: the final callback is made for a non-empty buffer only.
C29_BothAlwaysTwoCallbacks ==
    [][(op'.name = "message" /\ HasBoth(op'.msg))
          => /\ calls' = InterimThenFinal(op'.id, op'.msg.inputTranscription[1])
             /\ currentTranscript'[op'.id] = ""]_vars

\* C29, amended: a message with both a fragment and the turn-complete marker
\* leaves the buffer empty; for a fragment with a non-empty text it makes
\* exactly the callbacks (fragment, false) then (fragment, true), for a
\* fragment with the empty text only the callback ("", false).
C29_BothTwoCallbacksUnlessEmpty ==
    [][(op'.name = "message" /\ HasBoth(op'.msg))
          => LET text == op'.msg.inputTranscription[1] IN
             /\ calls' = IF text # ""
                         THEN InterimThenFinal(op'.id, text)
                         ELSE <<OnUpdateCall(op'.id, "", FALSE)>>
             /\ currentTranscript'[op'.id] = ""]_vars

\* A message with the fragment "a" and the marker has made both callbacks.
C29_Witness ==
    /\ op.name = "message" /\ HasBoth(op.msg)
    /\ calls = InterimThenFinal(op.id, "a")
    /\ currentTranscript[op.id] = ""

\* ==== further properties of the video screen =================================
\* The step on which the generator throws into the catch block of handleSubmit.
Fails == videoPc' = "failed" /\ (videoPc # "failed" \/ videoOp'.name = "call")

QuotaText == "You've exceeded your video generation quota. Please check your plan and billing details, or try again later."
PermissionText == "Your API key may be invalid or missing required permissions. Please select a valid key."

\* C28: on every failure of generateVideo the screen's status becomes error
\* and its error is exactly one of three: the quota error (flagged as such)
\* when the message has a quota signature, whatever else it has; else the
\* permission error when it has the permission signature, and then the
\* key-selected flag is revoked; else the generic error with the message. The
\* flag is revoked in no other case, and while it is revoked the screen
\* offers the key selection (as long as fewer than MaxDialogs dialogs are
\* open) and no submit.
C28_FailureClassifiedOnce ==
    /\ [][Fails =>
            LET m == ErrorMessage(failure') IN
            /\ status' = "error"
            /\ IsQuota(m) =>
                  videoError' = ScreenError(QuotaText, TRUE) /\ apiKeyOk' = apiKeyOk
            /\ (~IsQuota(m) /\ IsPermission(m)) =>
                  videoError' = ScreenError(PermissionText, FALSE) /\ apiKeyOk' = FALSE
            /\ (~IsQuota(m) /\ ~IsPermission(m)) =>
                  /\ videoError' = ScreenError("Failed to generate video: " \o m, FALSE)
                  /\ apiKeyOk' = apiKeyOk]_vars
    /\ []((~apiKeyOk /\ keyDialogs < MaxDialogs) => ENABLED handleSelectKey)
    /\ [](~apiKeyOk => ~ENABLED handleSubmit)

\* A failure whose message has both signatures was shown as the quota error
\* and the key stayed selected.
C28_Witness ==
    /\ videoPc = "failed"
    /\ IsQuota(failure.message) /\ IsPermission(failure.message)
    /\ status = "error"
    /\ videoError = ScreenError(QuotaText, TRUE)
    /\ apiKeyOk

\* ==== further properties of the chat service =================================
\* C30: the failure of a turn evicts only the Chat the turn was sent on: when
\* the cache of its personality holds another Chat by then (the entry was
\* cleared and a new Chat created while the turn was in flight), the failure
\* leaves that entry alone.
\* The code violates it: the catch block deletes the entry of the personality,
\* whichever Chat it holds.
C30_FailureEvictsOwnChatOnly ==
    [][(chatOp'.name = "rejected" /\ chats[chatOp'.p] # turn[chatOp'.turn].sess)
          => chats'[chatOp'.p] = chats[chatOp'.p]]_vars

\* ==== the transcription screen (src/components/modes/TranscribeMode.tsx) =====
\* Each startTranscription call i builds a capture pipeline of its own: the
\* MediaStream stream[i] ("pending" while getUserMedia is awaited, then "live"
\* or "denied", "stopped" once its tracks are stopped), the AudioContext
\* ctx[i] ("running", then "closed") and the source and ScriptProcessorNode
\* proc[i] ("connected", then "disconnected"). The refs hold the pipeline
\* built last. A connected processor of a running context raises
\* onaudioprocess, whether or not a ref still holds it.
Producing(i) == proc[i] = "connected" /\ ctx[i] = "running"

MicrophoneError == "Could not start microphone. Please grant permission and try again."

\* onTranscriptionUpdate(text, isFinal) on the two displayed texts.
AfterUpdate(shown, call) ==
    IF call.cb # "onTranscriptionUpdate" THEN shown
    ELSE IF call.isFinal
    THEN [interim |-> "", final |-> shown.final \o call.text \o " "]
    ELSE [interim |-> call.text, final |-> shown.final]

RECURSIVE Shown(_, _)
Shown(shown, cs) ==
    IF cs = <<>> THEN shown ELSE Shown(AfterUpdate(shown, Head(cs)), Tail(cs))

\* A step of the session manager in which the screen takes no part.
Backstage ==
    /\ micOp' = MicOp("service", 0)
    /\ UNCHANGED <<mounted, isListening, micError, transcript, finalTranscript, nextPipe, stream,
                   ctx, proc, micRefs, owner, fired>>

\* stopTranscription after its call of stopTranscriptionSession: the tracks
\* of the held stream are stopped, the held nodes disconnected, the held
\* context closed, the refs cleared, and isListening set to false.
StopCapture ==
    /\ stream' = [k \in Pipes |-> IF k = streamRef THEN "stopped" ELSE stream[k]]
    /\ proc' = [k \in Pipes |-> IF k = procRef THEN "disconnected" ELSE proc[k]]
    /\ ctx' = [k \in Pipes |-> IF k = ctxRef THEN "closed" ELSE ctx[k]]
    /\ streamRef' = 0 /\ procRef' = 0 /\ ctxRef' = 0
    /\ isListening' = FALSE

\* The microphone button: stopTranscription while listening, else
\* startTranscription up to its await of getUserMedia.
handleToggleListening ==
    /\ mounted
    /\ UNCHANGED mounted
    /\ IF isListening
       THEN /\ stopTranscriptionSession
            /\ StopCapture
            /\ micOp' = MicOp("stop", 0)
            /\ UNCHANGED <<micError, transcript, finalTranscript, nextPipe, owner, fired>>
       ELSE /\ nextPipe < MaxStarts
            /\ nextPipe' = nextPipe + 1
            /\ stream' = [stream EXCEPT ![nextPipe + 1] = "pending"]
            /\ micError' = ""
            /\ transcript' = ""
            /\ finalTranscript' = ""
            /\ micOp' = MicOp("start", nextPipe + 1)
            /\ UNCHANGED <<isListening, ctx, proc, micRefs, owner, fired>>
            /\ UNCHANGED <<apiKey, live, chat, video, videoScreen, request>>

\* getUserMedia of call i rejects: the catch block.
MediaDenied(i) ==
    /\ stream[i] = "pending"
    /\ stream' = [stream EXCEPT ![i] = "denied"]
    /\ micError' = MicrophoneError
    /\ isListening' = FALSE
    /\ micOp' = MicOp("denied", i)
    /\ UNCHANGED <<mounted, transcript, finalTranscript, nextPipe, ctx, proc, micRefs, owner, fired>>
    /\ UNCHANGED <<apiKey, live, chat, video, videoScreen, request>>

\* getUserMedia of call i resolves and startTranscription runs to its end:
\* the stream and a new context go into the refs, startTranscriptionSession
\* is called, the nodes are created, connected and put into the refs, and
\* isListening is set.
\* Without the API key the service calls onError before it returns, and
\* onError runs stopTranscription on the refs as they are then (the stream
\* and context of call i, the nodes of an earlier call); creating the nodes
\* on the context being closed then throws into the catch block, or does not
\* (nodeThrows), as the browser has it.
MediaGranted(i, nodeThrows) ==
    /\ stream[i] = "pending"
    /\ startTranscriptionSession
    /\ IF op'.outcome = "noKey"
       THEN /\ fired' = fired \cup {i}
            /\ stream' = [stream EXCEPT ![i] = "stopped"]
            /\ ctx' = [ctx EXCEPT ![i] = "closed"]
            /\ streamRef' = 0 /\ ctxRef' = 0
            /\ IF nodeThrows
               THEN /\ proc' = [k \in Pipes |->
                                  IF k = procRef THEN "disconnected" ELSE proc[k]]
                    /\ procRef' = 0
                    /\ micError' = MicrophoneError
                    /\ isListening' = FALSE
               ELSE /\ proc' = [k \in Pipes |->
                                  IF k = i THEN "connected"
                                  ELSE IF k = procRef THEN "disconnected" ELSE proc[k]]
                    /\ procRef' = i
                    /\ micError' = "API_KEY environment variable not set"
                    /\ isListening' = TRUE
            /\ UNCHANGED owner
       ELSE /\ ~nodeThrows
            /\ stream' = [stream EXCEPT ![i] = "live"]
            /\ ctx' = [ctx EXCEPT ![i] = "running"]
            /\ proc' = [proc EXCEPT ![i] = "connected"]
            /\ streamRef' = i /\ ctxRef' = i /\ procRef' = i
            /\ isListening' = TRUE
            /\ owner' = IF op'.outcome = "connect"
                        THEN [owner EXCEPT ![op'.id] = i]
                        ELSE owner
            /\ UNCHANGED <<micError, fired>>
    /\ micOp' = MicOp("granted", i)
    /\ UNCHANGED <<mounted, transcript, finalTranscript, nextPipe>>

\* scriptProcessor.onaudioprocess of call i: sendAudioForTranscription(pcmBlob)
onaudioprocess(i) ==
    /\ Producing(i)
    /\ sendAudioForTranscription
    /\ micOp' = MicOp("audio", i)
    /\ UNCHANGED <<mounted, isListening, micError, transcript, finalTranscript, nextPipe, stream,
                   ctx, proc, micRefs, owner, fired>>

\* A message on session c, with the screen's onTranscriptionUpdate.
MessageShown(c, m) ==
    /\ onmessage(c, m)
    /\ LET shown == Shown([interim |-> transcript, final |-> finalTranscript], calls') IN
       /\ Len(shown.final) <= MaxShown
       /\ transcript' = shown.interim
       /\ finalTranscript' = shown.final
    /\ micOp' = MicOp("message", owner[c])
    /\ UNCHANGED <<mounted, isListening, micError, nextPipe, stream, ctx, proc, micRefs, owner,
                   fired>>

\* The error event of session c, with the screen's onError:
\* setError(err.message), then stopTranscription, whose
\* stopTranscriptionSession finds the handle the service clears only after
\* the callback.
ErrorShown(c, message) ==
    /\ onerror(c, liveSessionPromise # Null, message)
    /\ micError' = calls'[1].text
    /\ StopCapture
    /\ fired' = fired \cup {owner[c]}
    /\ micOp' = MicOp("error", owner[c])
    /\ UNCHANGED <<mounted, transcript, finalTranscript, nextPipe, owner>>

\* onClose: () => { setIsListening(false); }
AfterOnClose ==
    /\ isListening' = FALSE
    /\ UNCHANGED <<stream, proc, ctx, micRefs>>

\* The close event of session c, with the screen's onClose.
CloseShown(c) ==
    /\ onclose(c)
    /\ AfterOnClose
    /\ fired' = fired \cup {owner[c]}
    /\ micOp' = MicOp("close", owner[c])
    /\ UNCHANGED <<mounted, micError, transcript, finalTranscript, nextPipe, owner>>

\* The cleanup of the effect, run when the component is unmounted:
\* stopTranscription. Callbacks and continuations that are still to come run
\* as before; their state updates are no longer shown.
Unmount ==
    /\ mounted
    /\ mounted' = FALSE
    /\ stopTranscriptionSession
    /\ StopCapture
    /\ micOp' = MicOp("unmount", 0)
    /\ UNCHANGED <<micError, transcript, finalTranscript, nextPipe, owner, fired>>

MicNext ==
    \/ handleToggleListening
    \/ Unmount
    \/ \E i \in Pipes : MediaDenied(i)
    \/ \E i \in Pipes, nodeThrows \in BOOLEAN : MediaGranted(i, nodeThrows)
    \/ \E i \in Pipes : onaudioprocess(i)
    \/ \E c \in Sessions, m \in Messages : MessageShown(c, m)
    \/ \E c \in Sessions, message \in ErrorEvents : ErrorShown(c, message)
    \/ \E c \in Sessions : CloseShown(c)
    \/ RunSendThen /\ Backstage
    \/ RunStopThen /\ Backstage
    \/ RunStopCatch /\ Backstage
    \/ RunStopFinally /\ Backstage
    \/ \E c \in Sessions : ConnectResolves(c) /\ Backstage
    \/ \E c \in Sessions : ConnectRejects(c) /\ Backstage

SpecMic == Init /\ [][MicNext]_vars

\* C26: once the onClose or onError callback of a startTranscription call
\* has been invoked, its pipeline raises no further onaudioprocess (so makes
\* no sendAudioForTranscription call) until the user starts transcription
\* again.
\* The code violates it: onClose only sets isListening to false and leaves
\* the processor connected to the running context.
C26_NoAudioAfterCloseOrError ==
    [][(micOp'.name = "audio" /\ micOp'.pipe = nextPipe) => micOp'.pipe \notin fired]_vars

\* A step that removes from the cache: clearChatHistory, a failed turn, or a
\* send whose lookup threw.
Evicts ==
    \/ chatOp'.name \in {"clear", "rejected"}
    \/ chatOp'.name = "send" /\ chatOp'.outcome \in {"noKey", "createThrew"}

\* C31: clearChatHistory(P) and a failed turn for P change at most the cache
\* entry of P; the cached Chat of every other personality stays as it was.
C31_OtherPersonalitiesUntouched ==
    [][Evicts => \A Q \in Personalities \ {chatOp'.p} : chats'[Q] = chats[Q]]_vars

\* A turn has failed and its personality's entry is gone while another
\* personality still has its Chat cached.
C31_Witness ==
    /\ chatOp.name = "rejected"
    /\ chats[chatOp.p] = Null
    /\ \E Q \in Personalities \ {chatOp.p} : chats[Q] # Null

\* ==== further properties of the chat screen ==================================
\* C32: after Clear Chat the list holds the greeting and messages of turns
\* submitted after the clear only: a reply or apology in the list follows the
\* user message of its turn, so the answer to a turn that was in flight when
\* the list was cleared is not in it.
\* The code violates it: the continuation of handleSendMessage appends to
\* whatever list there is when the call settles.
C32_NoAnswerOfClearedTurn ==
    \A i \in DOMAIN messages :
        (messages[i].role = "model" /\ messages[i].turn # 0)
            => \E j \in 1..(i - 1) : messages[j] = Message("user", "user", messages[i].turn)

\* The steps of a turn: its submit (the call goes out or the lookup throws)
\* and the settling of its call.
TurnSubmitted == chatOp'.name = "send"
TurnFailed ==
    \/ chatOp'.name = "rejected"
    \/ chatOp'.name = "send" /\ chatOp'.outcome \in {"noKey", "createThrew"}

\* C33: a submitted non-blank turn appends its user message; when its call
\* settles exactly one model message is appended, the reply on success and
\* the apology on failure, and isLoading is false afterwards; an error text
\* gets set on a failure only; and a turn in flight leads to isLoading false.
C33_TurnShowsOneAnswerAndStopsLoading ==
    /\ [][/\ (TurnSubmitted /\ ~TurnFailed) =>
                /\ messages' = Append(messages, Message("user", "user", chatOp'.turn))
                /\ isLoading'
          /\ (TurnSubmitted /\ TurnFailed) =>
                /\ messages' = messages \o <<Message("user", "user", chatOp'.turn),
                                             Message("model", "apology", chatOp'.turn)>>
                /\ error' /\ ~isLoading'
          /\ chatOp'.name = "replied" =>
                /\ messages' = Append(messages, Message("model", "reply", chatOp'.turn))
                /\ error' = error /\ ~isLoading'
          /\ chatOp'.name = "rejected" =>
                /\ messages' = Append(messages, Message("model", "apology", chatOp'.turn))
                /\ error' /\ ~isLoading'
          /\ (error' /\ ~error) => TurnFailed]_vars
    /\ (\E t \in Turns : turn[t].state = "inflight") ~> ~isLoading

\* A turn was answered and then a later turn failed: the list ends with the
\* apology of the failed turn, the error is set and nothing is loading.
C33_Witness ==
    /\ chatOp.name = "rejected"
    /\ \E i \in DOMAIN messages : messages[i].kind = "reply"
    /\ messages[Len(messages)] = Message("model", "apology", chatOp.turn)
    /\ error /\ ~isLoading

\* C34: on no connection does a sendRealtimeInput call follow the close()
\* call: a chunk handed over after stopTranscriptionSession is not sent on
\* the connection the stop has closed.
\* The code violates it: the stop clears the handle only in its finally
\* reaction, so a send call made before that finds the handle and queues its
\* reaction behind the close.
C34_NoSendAfterClose ==
    \A c \in Sessions :
        \A i, j \in DOMAIN wire[c] :
            (i < j /\ wire[c][i] = Close) => wire[c][j] = Close

\* Every final update among the callbacks cs carries the text of the interim
\* update made before it, prev being what was heard before cs.
RECURSIVE FinalsRepeatInterim(_, _)
FinalsRepeatInterim(prev, cs) ==
    IF cs = <<>> THEN TRUE
    ELSE IF Head(cs).isFinal
    THEN prev = <<Head(cs).text>> /\ FinalsRepeatInterim(<<>>, Tail(cs))
    ELSE FinalsRepeatInterim(<<Head(cs).text>>, Tail(cs))

\* C35: within a session every final update carries exactly the text of the
\* interim update of that session made last, and an interim update lies
\* between two final updates; a session begins with an empty buffer, and its
\* callbacks are made for itself, so it finalises no text of another session.
C35_FinalRepeatsLastInterim ==
    [][/\ op'.name = "message" =>
             /\ \A k \in DOMAIN calls' :
                   calls'[k].cb = "onTranscriptionUpdate" /\ calls'[k].sess = op'.id
             /\ FinalsRepeatInterim(lastInterim[op'.id], calls')
       /\ (op'.name = "start" /\ op'.outcome = "connect") =>
             currentTranscript'[op'.id] = "" /\ lastInterim'[op'.id] = <<>>]_vars

\* A second session has finalised the text "a" by a marker of its own message
\* after an earlier session had an interim update that was never finalised.
C35_Witness ==
    /\ op.name = "message" /\ op.id = 2
    /\ op.msg.inputTranscription = <<>>
    /\ calls = <<OnUpdateCall(2, "a", TRUE)>>
    /\ lastInterim[1] = <<"a">>

\* The generateVideo call is in flight: made and neither completed nor failed.
CallInFlight == videoPc \notin {"idle", "completed", "failed"}

\* The moves of the status: a submit takes idle, completed or error to
\* generating (and on to error at once when the call throws before its first
\* await); generating goes to fetching or error, fetching to completed or
\* error.
StatusMoves ==
    ({"idle", "completed", "error"} \X {"generating"})
    \cup {<<"generating", "fetching">>, <<"fetching", "completed">>,
          <<"generating", "error">>, <<"fetching", "error">>}

\* C36, the part on calls: a submit while the status is generating or
\* fetching starts no job, a call is made only when none is in flight, and
\* the status shows a call in flight as generating or fetching.
C36_OneCallInFlight ==
    /\ [][(videoOp'.name = "submit" /\ videoOp'.text = "ignored") =>
             UNCHANGED <<videoPc, submitted, polls, fetches, status>>]_vars
    /\ [][videoOp'.name = "call" => (~CallInFlight /\ ~VideoLoading)]_vars
    /\ [](CallInFlight <=> VideoLoading)

\* C36, the part on the status moves.
C36_StatusMoves ==
    [][status' # status =>
          \/ <<status, status'>> \in StatusMoves
          \/ videoOp'.name = "call" /\ status' = "error"]_vars

\* C36: at most one generateVideo call is in flight: a submit while the
\* status is generating or fetching is ignored and starts no job; the status
\* moves only from idle, completed or error to generating, from there to
\* fetching and completed, or to error; and the status completed implies that
\* a video url is set.
\* The code violates the last part: choosing a new image clears the url and
\* leaves the status completed.
C36_OneCallAndCompletedHasUrl ==
    /\ C36_OneCallInFlight
    /\ C36_StatusMoves
    /\ [](status = "completed" => videoUrl # <<>>)

\* ==== further properties of generateVideo ====================================
\* C39: when the job reports done with no error and its result carries no
\* download link, generateVideo fails with an error of that content, has
\* yielded neither fetching nor completed, and has made no fetch.
C39_NoLinkFailsBeforeFetch ==
    (operation.done /\ operation.error = <<>> /\ operation.uri = <<>>)
        => /\ videoPc = "failed"
           /\ failure = Failure("noLink", "Video generation failed to produce a download link.")
           /\ events = <<>>
           /\ fetches = 0

\* The submission itself returned a done operation without a link.
C39_Witness ==
    /\ videoOp.name = "submitReturns"
    /\ operation.done /\ operation.error = <<>> /\ operation.uri = <<>>
    /\ failure.cause = "noLink"
    /\ polls = 0

\* ==== further properties of the transcription screen =========================
\* C37: while the screen shows listening, the service holds the handle of a
\* session that the startTranscription call which built the held pipeline
\* has opened, and that session is opening or open.
\* The code violates it: startTranscription sets isListening whatever
\* startTranscriptionSession did, also when it returned for a session
\* already in progress or after it reported the missing key.
C37_ListeningHasOwnSession ==
    (mounted /\ isListening)
        => /\ liveSessionPromise # Null
           /\ owner[liveSessionPromise] = procRef
           /\ sock[liveSessionPromise] \in {"connecting", "open"}

\* C38: after the unmount no session is active without a stop having been
\* called on it, no stream has live tracks and no pipeline raises
\* onaudioprocess, also when getUserMedia was still awaited at the unmount.
\* The code violates it: the continuation of startTranscription runs after
\* the unmount as if nothing had happened.
C38_NothingRunsAfterUnmount ==
    ~mounted
        => /\ \A c \in Sessions : Live(c) => StopCalledOn(c)
           /\ \A i \in Pipes : stream[i] # "live" /\ ~Producing(i)
====
